---------------------------- MODULE Spec2Model ----------------------------
(***************************************************************************)
(* Model of the paper-magic game server (src/server/src/gameManager.ts):   *)
(* the room registry, the per-room action processor, the undo/redo         *)
(* history, the per-viewer sanitizer and the broadcast of state.           *)
(*                                                                         *)
(* Conventions.                                                            *)
(*  - uuidv4() is a fresh value <<"uuid", n>> taken from the counter uuid. *)
(*  - JSON.stringify/JSON.parse of a state is the identity on the modelled *)
(*    values: an undefined property and a missing one are both the "no     *)
(*    value" of their field (NoPos, NoId).                                 *)
(*  - card.zIndex is <<>> when undefined and <<n>> when it is the number n. *)
(*  - Date.now() values (createdAt, lastAction, timestamps), the ids and   *)
(*    the text of log entries never influence control flow and are left    *)
(*    out.                                                                 *)
(*  - Math.random() is a nondeterministic choice: a shuffle yields any     *)
(*    permutation, a default battlefield position any point of Jitter.     *)
(*  - A JS Map is a sequence of entries in insertion order.                *)
(***************************************************************************)
EXTENDS Integers, Sequences, FiniteSets, TLC

VARIABLES
  games,    \* GameManager.games: sequence of [gameId, room], room an index of rooms
  rooms,    \* the GameRoom objects ever created (a room stays referenced by its timers)
  sock,     \* per WebSocket: "OPEN", "CLOSED" (close event pending) or "DONE"
  timers,   \* pending setTimeout callbacks of handleDisconnect: sequence of [gameId, room]
  outbox,   \* the messages sent by the last handler, in order of sending
  uuid,     \* number of uuidv4() values handed out
  steps,    \* number of handler runs the run still allows (each specification starts at its bound)
  last,     \* the request handled by the last step
  trail,    \* the GAME_ACTION requests handled before the last one (at most TrailLen)
  sanIn,    \* SpecSanitize: the pair of states and the viewer the sanitizer is applied to
  sanOut,   \* SpecSanitize: the two views
  codes     \* the save codes clients hold: [code, room, at] for a GAME_SAVED reply of room `room` in state `at`

vars == <<games, rooms, sock, timers, outbox, uuid, steps, last, trail, sanIn, sanOut, codes>>

---------------------------------------------------------------------------
(* Bounds of the model *)

MaxSteps == 4
MaxGameSteps == 1
MaxHistSteps == 7

\* handler runs of SpecReap
MaxReapSteps == 9

TrailLen == 4

\* handler runs of SpecMatch
MaxMatchSteps == 3

\* handler runs of SpecSave
MaxSaveSteps == 4

\* handler runs of SpecField
MaxFieldSteps == 2

\* handler runs of SpecReveal
MaxRevealSteps == 1

\* handler runs of SpecSeat
MaxSeatSteps == 3

\* handler runs of SpecLife
MaxLifeSteps == 3

\* handler runs of SpecLayer
MaxLayerSteps == 2

\* handler runs of SpecDeep
MaxDeepSteps == 4

\* save codes held by clients at any time
MaxCodes == 2

\* arrays up to this length are shuffled into every permutation; of a longer
\* array the shuffle yields the array itself or its reverse
MaxShuffle == 3

(* Program constants *)

MAX_HISTORY == 50
HandSize == 7
LogMax == 30
StartLife == 20

Sockets == {"w1", "w2", "w3", "w4"}

\* three client connections exist; a fourth is made only in SpecReap
ThreeClients == [w \in Sockets |-> IF w = "w4" THEN "NONE" ELSE "OPEN"]
Passwords == {"pw1", "pw2"}
GameIds == {"ABC123", "XYZ789"}

---------------------------------------------------------------------------
(* Values *)

Null == [null |-> TRUE]
NoPos == [none |-> TRUE]
NoId == <<"none", 0>>
Uuid(n) == <<"uuid", n>>
GhostId == <<"uuid", 0>>

Min(a, b) == IF a <= b THEN a ELSE b

Range(s) == {s[i] : i \in 1..Len(s)}

RemoveAt(s, i) == [j \in 1..(Len(s) - 1) |-> IF j < i THEN s[j] ELSE s[j + 1]]

\* Array.prototype.findIndex(c => c.instanceId === id), 1-based; 0 when absent
FindIndex(s, id) == IF \E i \in 1..Len(s) : s[i].instanceId = id THEN CHOOSE i \in 1..Len(s) : s[i].instanceId = id /\ \A j \in 1..(i - 1) : s[j].instanceId # id ELSE 0

Perms(s) == IF Len(s) <= MaxShuffle THEN {[i \in 1..Len(s) |-> s[f[i]]] : f \in {g \in [1..Len(s) -> 1..Len(s)] : \A a, b \in 1..Len(s) : g[a] = g[b] => a = b}} ELSE {s, [i \in 1..Len(s) |-> s[Len(s) + 1 - i]]}

\* String.prototype.toUpperCase on the game ids clients type
ToUpperCase(s) == CASE s = "abc123" -> "ABC123" [] s = "Abc123" -> "ABC123" [] s = "xyz789" -> "XYZ789" [] OTHER -> s

\* sha256 as a collision-free digest
hashPassword(password) == <<"sha256", password>>

---------------------------------------------------------------------------
(* shared/types: cards, players, game state *)

\* the catalog entries a client can put in a deck list (SUBMIT_DECK payload entries)
Catalog == {[scryfallId |-> "sf-forest", name |-> "Forest", imageUri |-> "img-forest", backImageUri |-> "none"], [scryfallId |-> "sf-delver", name |-> "Delver", imageUri |-> "img-delver", backImageUri |-> "img-insect"]}

Forest == CHOOSE c \in Catalog : c.name = "Forest"
Delver == CHOOSE c \in Catalog : c.name = "Delver"

\* submitDeck's map callback: a catalog entry becomes a card instance
NewCard(entry, id) == [instanceId |-> id, scryfallId |-> entry.scryfallId, name |-> entry.name, imageUri |-> entry.imageUri, backImageUri |-> entry.backImageUri, isTapped |-> FALSE, isFaceDown |-> FALSE, isTransformed |-> FALSE, counters |-> <<>>, attachedTo |-> NoId, attachments |-> <<>>, position |-> NoPos, zIndex |-> <<>>, isToken |-> "absent"]

\* the token payloads a client sends with CREATE_TOKEN ({...token, instanceId: uuidv4()}):
\* a Token as the client of the repository builds it, and one that carries an order
TokenPayloads == {[NewCard([scryfallId |-> "", name |-> "Zombie", imageUri |-> "img-zombie", backImageUri |-> "none"], NoId) EXCEPT !.isToken = "true", !.position = [x |-> 50, y |-> 50], !.zIndex = z] : z \in {<<>>, <<0>>}}

PlayerZones == <<"hand", "battlefield", "graveyard", "exileActive", "exilePermanent", "deck", "sideboard">>
ZoneNames == Range(PlayerZones)

createPlayer(id, name) == [id |-> id, name |-> name, deck |-> <<>>, hand |-> <<>>, battlefield |-> <<>>, graveyard |-> <<>>, exileActive |-> <<>>, exilePermanent |-> <<>>, sideboard |-> <<>>, life |-> <<[delta |-> 0, total |-> StartLife]>>, counters |-> [poison |-> 0, energy |-> 0, experience |-> 0], mulliganCount |-> 0, hasKeptHand |-> FALSE, readyForNextGame |-> FALSE]

createGameState(id, passwordHash) == [id |-> id, passwordHash |-> passwordHash, players |-> <<Null, Null>>, stack |-> <<>>, phase |-> "lobby", currentGame |-> 1, gameResults |-> <<>>, turn |-> [number |-> 0, activePlayer |-> 0, phase |-> "Pre-game"], isGoldfishMode |-> FALSE, actionLog |-> <<>>]

\* state.players[playerIndex] with playerIndex 0 or 1
PlayerAt(state, playerIndex) == state.players[playerIndex + 1]

SetPlayer(state, playerIndex, player) == [state EXCEPT !.players[playerIndex + 1] = player]

Other(playerIndex) == IF playerIndex = 0 THEN 1 ELSE 0

\* every card instance of a state, zone by zone (both players, then the stack)
PlayerCards(player) == IF player = Null THEN <<>> ELSE player.deck \o player.hand \o player.battlefield \o player.graveyard \o player.exileActive \o player.exilePermanent \o player.sideboard

AllCards(state) == PlayerCards(state.players[1]) \o PlayerCards(state.players[2]) \o state.stack

---------------------------------------------------------------------------
(* State sanitizer *)

HiddenCard(i) == [instanceId |-> <<"hidden", i>>, scryfallId |-> "", name |-> "Hidden", imageUri |-> "", backImageUri |-> "none", isTapped |-> FALSE, isFaceDown |-> TRUE, isTransformed |-> FALSE, counters |-> <<>>, attachedTo |-> NoId, attachments |-> <<>>, position |-> NoPos, zIndex |-> <<>>, isToken |-> "absent"]

\* opponent.hand.map(card => ({...card, name: 'Hidden', imageUri: '', oracleText: undefined}))
HideHandCard(card) == [card EXCEPT !.name = "Hidden", !.imageUri = ""]

SanitizeOpponent(opponent) == [opponent EXCEPT !.hand = [i \in 1..Len(opponent.hand) |-> HideHandCard(opponent.hand[i])], !.deck = [i \in 1..Len(opponent.deck) |-> HiddenCard(i - 1)]]

\* a sanitizer that hides the hand and the library of the viewer instead of the opponent's
SanitizeOwnSeat(state, playerIndex) == IF PlayerAt(state, playerIndex) = Null THEN state ELSE SetPlayer(state, playerIndex, SanitizeOpponent(PlayerAt(state, playerIndex)))

sanitizeStateForPlayer(state, playerIndex) == IF PlayerAt(state, Other(playerIndex)) = Null THEN state ELSE SetPlayer(state, Other(playerIndex), SanitizeOpponent(PlayerAt(state, Other(playerIndex))))

---------------------------------------------------------------------------
(* History manager: room.stateHistory (array, index 0 first) and room.historyIndex *)

Truncated(room) == IF room.historyIndex < Len(room.stateHistory) - 1 THEN SubSeq(room.stateHistory, 1, room.historyIndex + 1) ELSE room.stateHistory

Evicted(room) == IF Len(room.stateHistory) > MAX_HISTORY THEN [room EXCEPT !.stateHistory = Tail(room.stateHistory), !.historyIndex = room.historyIndex - 1] ELSE room

\* a save that keeps the forward history and only steps the cursor
SnapshotKeepingForward(room) == Evicted([room EXCEPT !.stateHistory = Append(room.stateHistory, room.state), !.historyIndex = room.historyIndex + 1])

\* a save that takes no snapshot
NoSnapshot(room) == room

\* a save that never evicts
SnapshotWithoutEviction(room) == [room EXCEPT !.stateHistory = Append(Truncated(room), room.state), !.historyIndex = Len(Truncated(room))]

saveStateSnapshot(room) == Evicted([room EXCEPT !.stateHistory = Append(Truncated(room), room.state), !.historyIndex = Len(Truncated(room))])

\* restoreStateFromSnapshot(room, room.stateHistory[room.historyIndex])
restoreStateFromSnapshot(room) == [room EXCEPT !.state = room.stateHistory[room.historyIndex + 1]]

undoAction(room) == IF room.historyIndex <= 0 THEN [room |-> room, success |-> FALSE] ELSE [room |-> restoreStateFromSnapshot([room EXCEPT !.historyIndex = room.historyIndex - 1]), success |-> TRUE]

redoAction(room) == IF room.historyIndex >= Len(room.stateHistory) - 1 THEN [room |-> room, success |-> FALSE] ELSE [room |-> restoreStateFromSnapshot([room EXCEPT !.historyIndex = room.historyIndex + 1]), success |-> TRUE]

---------------------------------------------------------------------------
(* Registry and connection tables *)

NewRoom(state) == [state |-> state, players |-> <<>>, stateHistory |-> <<>>, historyIndex |-> -1]

ConnIndex(players, playerId) == IF \E i \in 1..Len(players) : players[i].playerId = playerId THEN CHOOSE i \in 1..Len(players) : players[i].playerId = playerId ELSE 0

\* room.players.set(playerId, {ws, playerIndex, playerId}): an existing key keeps its place
\* a set that adds an entry and leaves the player's old one in place
AppendConn(players, playerId, ws, playerIndex) == Append(players, [playerId |-> playerId, ws |-> ws, playerIndex |-> playerIndex])

SetConn(players, playerId, ws, playerIndex) == IF ConnIndex(players, playerId) = 0 THEN Append(players, [playerId |-> playerId, ws |-> ws, playerIndex |-> playerIndex]) ELSE [players EXCEPT ![ConnIndex(players, playerId)] = [playerId |-> playerId, ws |-> ws, playerIndex |-> playerIndex]]

\* this.games.get(gameId): the room index, 0 when absent
GamesGet(gameId) == IF \E i \in 1..Len(games) : games[i].gameId = gameId THEN (CHOOSE g \in Range(games) : g.gameId = gameId).room ELSE 0

HasSocket(room, ws) == \E i \in 1..Len(room.players) : room.players[i].ws = ws

FirstConn(room, ws) == room.players[CHOOSE i \in 1..Len(room.players) : room.players[i].ws = ws /\ \A j \in 1..(i - 1) : room.players[j].ws # ws]

NoInfo == [room |-> 0]

getPlayerBySocket(ws) == IF \E i \in 1..Len(games) : HasSocket(rooms[games[i].room], ws) THEN LET g == games[CHOOSE i \in 1..Len(games) : HasSocket(rooms[games[i].room], ws) /\ \A j \in 1..(i - 1) : ~HasSocket(rooms[games[j].room], ws)] IN [room |-> g.room, playerId |-> FirstConn(rooms[g.room], ws).playerId, playerIndex |-> FirstConn(rooms[g.room], ws).playerIndex] ELSE NoInfo

---------------------------------------------------------------------------
(* Sending *)

IsOpen(ws) == sock[ws] = "OPEN"

\* the connections a loop "if (conn.ws.readyState === WebSocket.OPEN) send" reaches
OpenConns(room) == SelectSeq(room.players, LAMBDA c : IsOpen(c.ws))

\* a STATE_UPDATE that carries the room's state as it is
RawUpdateFor(room, conn) == [to |-> conn.ws, body |-> [type |-> "STATE_UPDATE", gameState |-> room.state], type |-> "STATE_UPDATE"]

StateUpdateFor(room, conn) == [to |-> conn.ws, body |-> [type |-> "STATE_UPDATE", gameState |-> sanitizeStateForPlayer(room.state, conn.playerIndex)], type |-> "STATE_UPDATE"]

broadcastStateUpdate(room) == [i \in 1..Len(OpenConns(room)) |-> StateUpdateFor(room, OpenConns(room)[i])]

\* broadcastToRoom(room, message): message is the record without its recipient
SendAll(conns, message) == [i \in 1..Len(conns) |-> [to |-> conns[i].ws, body |-> message, type |-> message.type]]

broadcastToRoom(room, message) == SendAll(OpenConns(room), message)

broadcastToOthers(room, excludePlayerId, message) == SendAll(SelectSeq(OpenConns(room), LAMBDA c : c.playerId # excludePlayerId), message)

\* ws.send(JSON.stringify(response)) of the message handler
Reply(ws, message) == <<[to |-> ws, body |-> message, type |-> message.type]>>

ErrorMsg(code) == [type |-> "ERROR", code |-> code]

---------------------------------------------------------------------------
(* Action processor: helpers of processAction *)

\* what one run of the switch of processAction produces: the next state, the number of
\* broadcastStateUpdate calls made (the trailing one included), the side-channel
\* messages sent, and the reply ("ACK" or an error code)
Out(state) == [state |-> state, bcasts |-> 1, side |-> <<>>, ret |-> "ACK", fresh |-> 0]

Refuse(state, code) == [state |-> state, bcasts |-> 0, side |-> <<>>, ret |-> code, fresh |-> 0]

KeepLast(log) == IF Len(log) > LogMax THEN SubSeq(log, Len(log) - LogMax + 1, Len(log)) ELSE log

addLogEntry(state, playerIndex, actionType) == [state EXCEPT !.actionLog = KeepLast(Append(state.actionLog, [playerIndex |-> playerIndex, playerName |-> IF PlayerAt(state, playerIndex) = Null THEN (IF playerIndex = 0 THEN "Player 1" ELSE "Player 2") ELSE PlayerAt(state, playerIndex).name, type |-> actionType]))]

FindCardOrder == <<"hand", "battlefield", "graveyard", "exileActive", "exilePermanent", "deck">>

\* findCardInZones(player, instanceId): the zone and index of the card found, zone "" when none
findCardInZones(player, instanceId) == IF \E k \in 1..Len(FindCardOrder) : FindIndex(player[FindCardOrder[k]], instanceId) # 0 THEN LET k == CHOOSE k \in 1..Len(FindCardOrder) : FindIndex(player[FindCardOrder[k]], instanceId) # 0 /\ \A j \in 1..(k - 1) : FindIndex(player[FindCardOrder[j]], instanceId) = 0 IN [zone |-> FindCardOrder[k], index |-> FindIndex(player[FindCardOrder[k]], instanceId)] ELSE [zone |-> "", index |-> 0]

\* const card = this.findCardInZones(player, id); if (card) { card.<field> = ... }
UpdateFound(player, instanceId, F(_)) == LET hit == findCardInZones(player, instanceId) IN IF hit.zone = "" THEN player ELSE [player EXCEPT ![hit.zone][hit.index] = F(player[hit.zone][hit.index])]

\* (Math.random() - 0.5) * 10 around (40, 40)
JitterPoints == {[x |-> 36, y |-> 44], [x |-> 43, y |-> 37]}

ResetFor(card, to, position, faceDown) == IF to = "battlefield" THEN {[card EXCEPT !.isTapped = FALSE, !.isFaceDown = faceDown, !.position = pos] : pos \in IF position # NoPos THEN {position} ELSE JitterPoints} ELSE IF to \in {"exileActive", "exilePermanent"} THEN {[card EXCEPT !.isTapped = FALSE, !.isFaceDown = faceDown, !.position = NoPos]} ELSE {[card EXCEPT !.isTapped = FALSE, !.isFaceDown = FALSE, !.position = NoPos]}

\* a move that pushes the card on the destination and leaves it in the source as well
CopyCard(player, instanceId, from, to, position, faceDown) == IF from \notin ZoneNames \/ to \notin ZoneNames THEN {player} ELSE IF FindIndex(player[from], instanceId) = 0 THEN {player} ELSE {[player EXCEPT ![to] = Append(player[to], c)] : c \in ResetFor(player[from][FindIndex(player[from], instanceId)], to, position, faceDown)}

\* moveCard(player, instanceId, from, to, position, faceDown): the players it can leave
moveCard(player, instanceId, from, to, position, faceDown) == IF from \notin ZoneNames \/ to \notin ZoneNames THEN {player} ELSE IF FindIndex(player[from], instanceId) = 0 THEN {player} ELSE LET card == player[from][FindIndex(player[from], instanceId)] removed == [player EXCEPT ![from] = RemoveAt(player[from], FindIndex(player[from], instanceId))] IN {[removed EXCEPT ![to] = Append(removed[to], c)] : c \in ResetFor(card, to, position, faceDown)}

NoCard == [none |-> TRUE]

\* removeCardFromPlayerZone(player, instanceId, zone): the card (NoCard for null) and the player left
removeCardFromPlayerZone(player, instanceId, zone) == IF zone \notin ZoneNames THEN [card |-> NoCard, player |-> player] ELSE IF FindIndex(player[zone], instanceId) = 0 THEN [card |-> NoCard, player |-> player] ELSE [card |-> player[zone][FindIndex(player[zone], instanceId)], player |-> [player EXCEPT ![zone] = RemoveAt(player[zone], FindIndex(player[zone], instanceId))]]

PlacedFor(card, zone, position) == IF zone = "battlefield" THEN {[card EXCEPT !.isTapped = FALSE, !.position = pos] : pos \in IF position # NoPos THEN {position} ELSE JitterPoints} ELSE {[card EXCEPT !.isTapped = FALSE, !.position = NoPos]}

\* addCardToPlayerZone(player, card, zone, position): zones[zone]?.push(card)
addCardToPlayerZone(player, card, zone, position) == IF zone \in ZoneNames THEN {[player EXCEPT ![zone] = Append(player[zone], c)] : c \in PlacedFor(card, zone, position)} ELSE {player}

---------------------------------------------------------------------------
(* Action processor: the cases of the switch of processAction.  Each takes the     *)
(* state after the snapshot, the acting seat and the action, and gives the set of  *)
(* outcomes the case can have.                                                     *)

\* case 'DRAW_CARDS': count = action.count || 1
DoDrawCards(state, playerIndex, a) == LET player == PlayerAt(state, playerIndex) n == Min(IF a.count = 0 THEN 1 ELSE a.count, Len(player.deck)) IN {Out(addLogEntry(SetPlayer(state, playerIndex, [player EXCEPT !.hand = player.hand \o SubSeq(player.deck, 1, n), !.deck = SubSeq(player.deck, n + 1, Len(player.deck))]), playerIndex, "DRAW_CARDS"))}

\* case 'SHUFFLE_DECK'
DoShuffleDeck(state, playerIndex, a) == {Out(addLogEntry(SetPlayer(state, playerIndex, [PlayerAt(state, playerIndex) EXCEPT !.deck = d]), playerIndex, "SHUFFLE_DECK")) : d \in Perms(PlayerAt(state, playerIndex).deck)}

\* case 'TAP_CARD'
DoTapCard(state, playerIndex, a) == {Out(SetPlayer(state, playerIndex, UpdateFound(PlayerAt(state, playerIndex), a.instanceId, LAMBDA c : [c EXCEPT !.isTapped = TRUE])))}

\* case 'UNTAP_CARD'
DoUntapCard(state, playerIndex, a) == {Out(SetPlayer(state, playerIndex, UpdateFound(PlayerAt(state, playerIndex), a.instanceId, LAMBDA c : [c EXCEPT !.isTapped = FALSE])))}

\* case 'UNTAP_ALL'
DoUntapAll(state, playerIndex, a) == LET player == PlayerAt(state, playerIndex) IN {Out(SetPlayer(state, playerIndex, [player EXCEPT !.battlefield = [i \in 1..Len(player.battlefield) |-> [player.battlefield[i] EXCEPT !.isTapped = FALSE]]]))}

\* case 'FLIP_CARD'
DoFlipCard(state, playerIndex, a) == {Out(SetPlayer(state, playerIndex, UpdateFound(PlayerAt(state, playerIndex), a.instanceId, LAMBDA c : [c EXCEPT !.isFaceDown = ~c.isFaceDown])))}

\* case 'MOVE_CARD', action.to === 'stack'
MoveToStack(state, playerIndex, a) == LET r == removeCardFromPlayerZone(PlayerAt(state, playerIndex), a.instanceId, a.from) IN IF r.card = NoCard THEN {Out(state)} ELSE {Out([SetPlayer(state, playerIndex, r.player) EXCEPT !.stack = Append(state.stack, [r.card EXCEPT !.position = a.position, !.isTapped = FALSE])])}

\* case 'MOVE_CARD', action.from === 'stack'
MoveFromStack(state, playerIndex, a) == IF FindIndex(state.stack, a.instanceId) = 0 THEN {Out(state)} ELSE {Out([SetPlayer(state, playerIndex, p) EXCEPT !.stack = RemoveAt(state.stack, FindIndex(state.stack, a.instanceId))]) : p \in addCardToPlayerZone(PlayerAt(state, playerIndex), state.stack[FindIndex(state.stack, a.instanceId)], a.to, a.position)}

FaceDownLog(state, playerIndex, a) == IF a.faceDown /\ a.to = "battlefield" THEN addLogEntry(state, playerIndex, "PLAY_FACE_DOWN") ELSE IF a.faceDown /\ a.to = "exileActive" THEN addLogEntry(state, playerIndex, "FORETELL") ELSE state

\* case 'MOVE_CARD', the normal per-player zone move
MoveInZones(state, playerIndex, a) == {Out(FaceDownLog(SetPlayer(state, playerIndex, p), playerIndex, a)) : p \in moveCard(PlayerAt(state, playerIndex), a.instanceId, a.from, a.to, a.position, a.faceDown)}

\* case 'MOVE_CARD'
DoMoveCard(state, playerIndex, a) == IF a.to = "stack" THEN MoveToStack(state, playerIndex, a) ELSE IF a.from = "stack" THEN MoveFromStack(state, playerIndex, a) ELSE MoveInZones(state, playerIndex, a)

\* case 'MOVE_TO_OPPONENT_BATTLEFIELD'
DoMoveToOpponentBattlefield(state, playerIndex, a) == LET opponent == PlayerAt(state, Other(playerIndex)) r == removeCardFromPlayerZone(PlayerAt(state, playerIndex), a.instanceId, a.from) IN IF opponent = Null \/ r.card = NoCard THEN {Out(state)} ELSE {Out(SetPlayer(SetPlayer(state, playerIndex, r.player), Other(playerIndex), [opponent EXCEPT !.battlefield = Append(opponent.battlefield, [r.card EXCEPT !.isTapped = FALSE, !.isFaceDown = FALSE, !.position = IF a.position # NoPos THEN a.position ELSE [x |-> 50, y |-> 50]])]))}

\* case 'TAKE_FROM_OPPONENT_BATTLEFIELD'
DoTakeFromOpponentBattlefield(state, playerIndex, a) == LET opponent == PlayerAt(state, Other(playerIndex)) IN IF opponent = Null THEN {Out(state)} ELSE IF FindIndex(opponent.battlefield, a.instanceId) = 0 THEN {Out(state)} ELSE {Out(SetPlayer(SetPlayer(state, Other(playerIndex), [opponent EXCEPT !.battlefield = RemoveAt(opponent.battlefield, FindIndex(opponent.battlefield, a.instanceId))]), playerIndex, p)) : p \in addCardToPlayerZone(PlayerAt(state, playerIndex), opponent.battlefield[FindIndex(opponent.battlefield, a.instanceId)], a.to, a.position)}

\* a life change that overwrites the total instead of appending to the ledger
UpdateLifeOverwrites(state, playerIndex, a) == LET player == PlayerAt(state, playerIndex) IN {Out(SetPlayer(state, playerIndex, [player EXCEPT !.life = <<[delta |-> a.delta, total |-> player.life[Len(player.life)].total + a.delta]>>]))}

\* case 'UPDATE_LIFE' (the optional note is left out)
DoUpdateLife(state, playerIndex, a) == LET player == PlayerAt(state, playerIndex) currentTotal == IF Len(player.life) > 0 THEN player.life[Len(player.life)].total ELSE StartLife IN {Out(SetPlayer(state, playerIndex, [player EXCEPT !.life = Append(player.life, [delta |-> a.delta, total |-> currentTotal + a.delta])]))}

\* case 'PASS_TURN'
DoPassTurn(state, playerIndex, a) == {Out(addLogEntry([state EXCEPT !.turn = [number |-> state.turn.number + 1, activePlayer |-> IF state.isGoldfishMode THEN 0 ELSE Other(state.turn.activePlayer), phase |-> "Main"]], playerIndex, "PASS_TURN"))}

\* case 'CREATE_TOKEN': {...token, instanceId: uuidv4()} pushed on the battlefield
DoCreateToken(state, playerIndex, a) == LET player == PlayerAt(state, playerIndex) IN {[Out(SetPlayer(state, playerIndex, [player EXCEPT !.battlefield = Append(player.battlefield, [a.token EXCEPT !.instanceId = Uuid(uuid + 1)])])) EXCEPT !.fresh = 1]}

\* case 'DESTROY_TOKEN'
DoDestroyToken(state, playerIndex, a) == LET player == PlayerAt(state, playerIndex) hits == {i \in 1..Len(player.battlefield) : player.battlefield[i].instanceId = a.instanceId /\ player.battlefield[i].isToken = "true"} IN IF hits = {} THEN {Out(state)} ELSE {Out(SetPlayer(state, playerIndex, [player EXCEPT !.battlefield = RemoveAt(player.battlefield, CHOOSE i \in hits : \A j \in hits : i <= j)]))}

\* a default case that answers ERROR and returns before the trailing broadcast
DefaultRefused(state, playerIndex, a) == {Refuse(state, "UNKNOWN_ACTION")}

\* case 'MOVE_CARD_POSITION': player.battlefield.find, then card.position = action.position
DoMoveCardPosition(state, playerIndex, a) == LET i == FindIndex(PlayerAt(state, playerIndex).battlefield, a.instanceId) IN IF i = 0 THEN {Out(state)} ELSE {Out([state EXCEPT !.players[playerIndex + 1].battlefield[i].position = a.position])}

\* case 'TRANSFORM_CARD'
DoTransformCard(state, playerIndex, a) == {Out(SetPlayer(state, playerIndex, UpdateFound(PlayerAt(state, playerIndex), a.instanceId, LAMBDA c : [c EXCEPT !.isTransformed = ~c.isTransformed])))}

\* case 'ADD_COUNTER' (the model's requests always carry a counter)
DoAddCounter(state, playerIndex, a) == {Out(SetPlayer(state, playerIndex, UpdateFound(PlayerAt(state, playerIndex), a.instanceId, LAMBDA c : [c EXCEPT !.counters = Append(c.counters, a.counter)])))}

\* case 'REMOVE_COUNTER': card.counters.splice(counterIndex, 1) when card.counters[counterIndex] exists
DoRemoveCounter(state, playerIndex, a) == {Out(SetPlayer(state, playerIndex, UpdateFound(PlayerAt(state, playerIndex), a.instanceId, LAMBDA c : IF a.counterIndex >= 0 /\ a.counterIndex < Len(c.counters) THEN [c EXCEPT !.counters = RemoveAt(c.counters, a.counterIndex + 1)] ELSE c)))}

\* case 'SET_PLAYER_COUNTER': player.counters[counterType] = Math.max(0, value)
DoSetPlayerCounter(state, playerIndex, a) == {Out([state EXCEPT !.players[playerIndex + 1].counters[a.counterType] = IF a.value > 0 THEN a.value ELSE 0])}


\* default: an action type the switch does not know
DoDefault(state, playerIndex, a) == {Out(state)}

GoldfishId == <<"goldfish-opponent", 0>>

\* case 'ENABLE_GOLDFISH'
DoEnableGoldfish(state, playerIndex, a) == IF state.phase # "lobby" THEN {Refuse(state, "INVALID_PHASE")} ELSE IF state.players[2] # Null THEN {Refuse(state, "OPPONENT_PRESENT")} ELSE {Out([state EXCEPT !.isGoldfishMode = TRUE, !.players[2] = [createPlayer(GoldfishId, "Goldfish Opponent") EXCEPT !.hasKeptHand = TRUE, !.readyForNextGame = TRUE]])}

RECURSIVE PullCards(_, _)
\* for (const id of ids) { i = zone.findIndex(...); if (i !== -1) taken.push(zone.splice(i, 1)[0]) }
PullCards(zone, ids) == IF ids = <<>> THEN [taken |-> <<>>, rest |-> zone] ELSE LET i == FindIndex(zone, Head(ids)) r == PullCards(IF i = 0 THEN zone ELSE RemoveAt(zone, i), Tail(ids)) IN IF i = 0 THEN r ELSE [taken |-> <<zone[i]>> \o r.taken, rest |-> r.rest]

\* case 'PUT_ON_TOP'
DoPutOnTop(state, playerIndex, a) == LET player == PlayerAt(state, playerIndex) r == PullCards(player.deck, a.instanceIds) IN {Out(SetPlayer(state, playerIndex, [player EXCEPT !.deck = r.taken \o r.rest]))}

\* case 'PUT_ON_BOTTOM'
DoPutOnBottom(state, playerIndex, a) == LET player == PlayerAt(state, playerIndex) r == PullCards(player.deck, a.instanceIds) IN {Out(SetPlayer(state, playerIndex, [player EXCEPT !.deck = r.rest \o r.taken]))}

\* case 'BOTTOM_CARDS'
DoBottomCards(state, playerIndex, a) == LET player == PlayerAt(state, playerIndex) r == PullCards(player.hand, a.instanceIds) IN {Out(SetPlayer(state, playerIndex, [player EXCEPT !.hand = r.rest, !.deck = player.deck \o r.taken]))}

StartPlaying(state) == [state EXCEPT !.phase = "playing", !.turn = [number |-> 1, activePlayer |-> 0, phase |-> "Main"]]

\* a MULLIGAN_KEEP that starts play as soon as anyone keeps
KeepStartsPlay(state, playerIndex, a) == {Out(StartPlaying(SetPlayer(state, playerIndex, [PlayerAt(state, playerIndex) EXCEPT !.hasKeptHand = TRUE])))}

\* case 'MULLIGAN_KEEP'
DoMulliganKeep(state, playerIndex, a) == LET kept == SetPlayer(state, playerIndex, [PlayerAt(state, playerIndex) EXCEPT !.hasKeptHand = TRUE]) other == PlayerAt(kept, Other(playerIndex)) IN IF kept.isGoldfishMode /\ playerIndex = 0 THEN {Out(StartPlaying(kept))} ELSE IF other # Null /\ other.hasKeptHand THEN {Out(StartPlaying(kept))} ELSE {Out(kept)}

\* for (let i = 0; i < 7 && deck.length > 0; i++) hand.push(deck.shift())
DealHand(player) == [player EXCEPT !.hand = player.hand \o SubSeq(player.deck, 1, Min(HandSize, Len(player.deck))), !.deck = SubSeq(player.deck, Min(HandSize, Len(player.deck)) + 1, Len(player.deck))]

\* case 'MULLIGAN_AGAIN': the hand goes back, shuffle, mulliganCount++, draw 7
DoMulliganAgain(state, playerIndex, a) == LET player == PlayerAt(state, playerIndex) IN {Out(SetPlayer(state, playerIndex, DealHand([player EXCEPT !.hand = <<>>, !.deck = d, !.mulliganCount = player.mulliganCount + 1]))) : d \in Perms(player.deck \o player.hand)}

MainZones == <<"deck", "hand", "battlefield", "graveyard">>

\* case 'SWAP_SIDEBOARD' (indices as the client sends them, 0-based)
DoSwapSideboard(state, playerIndex, a) == LET player == PlayerAt(state, playerIndex) allMainCards == player.deck \o player.hand \o player.battlefield \o player.graveyard IN IF ~(a.mainDeckIndex >= 0 /\ a.mainDeckIndex < Len(allMainCards) /\ a.sideboardIndex >= 0 /\ a.sideboardIndex < Len(player.sideboard)) THEN {Out(state)} ELSE LET mainCard == allMainCards[a.mainDeckIndex + 1] sideCard == player.sideboard[a.sideboardIndex + 1] k == CHOOSE k \in 1..Len(MainZones) : FindIndex(player[MainZones[k]], mainCard.instanceId) # 0 /\ \A j \in 1..(k - 1) : FindIndex(player[MainZones[j]], mainCard.instanceId) = 0 removed == [player EXCEPT ![MainZones[k]] = RemoveAt(player[MainZones[k]], FindIndex(player[MainZones[k]], mainCard.instanceId))] IN {Out(SetPlayer(state, playerIndex, [removed EXCEPT !.sideboard[a.sideboardIndex + 1] = mainCard, !.deck = Append(removed.deck, sideCard)]))}

\* an endGame that always goes on to sideboarding
EndGameNeverFinishes(state, winner) == [state EXCEPT !.gameResults = Append(state.gameResults, winner), !.phase = "sideboarding", !.currentGame = state.currentGame + 1, !.players = [i \in 1..2 |-> IF state.players[i] = Null THEN Null ELSE [state.players[i] EXCEPT !.readyForNextGame = FALSE]]]

Wins(results, who) == Cardinality({i \in 1..Len(results) : results[i] = who})

\* endGame(room, winner), without its broadcast
endGame(state, winner) == LET results == Append(state.gameResults, winner) IN IF Wins(results, "player1") >= 2 \/ Wins(results, "player2") >= 2 \/ Len(results) >= 3 THEN [state EXCEPT !.gameResults = results, !.phase = "finished"] ELSE [state EXCEPT !.gameResults = results, !.phase = "sideboarding", !.currentGame = state.currentGame + 1, !.players = [i \in 1..2 |-> IF state.players[i] = Null THEN Null ELSE [state.players[i] EXCEPT !.readyForNextGame = FALSE]]]

\* case 'CONCEDE': endGame broadcasts, then the switch's trailing broadcast
DoConcede(state, playerIndex, a) == {[Out(endGame(state, IF Other(playerIndex) = 0 THEN "player1" ELSE "player2")) EXCEPT !.bcasts = 2]}

\* case 'DECLARE_WINNER'
DoDeclareWinner(state, playerIndex, a) == {[Out(endGame(state, a.winner)) EXCEPT !.bcasts = 2]}

ResetCard(card) == [card EXCEPT !.isTapped = FALSE, !.isFaceDown = FALSE, !.isTransformed = FALSE, !.counters = <<>>, !.attachedTo = NoId, !.attachments = <<>>, !.position = NoPos]

\* the pool of startNextGame: every zone but the sideboard, entries with an isToken property dropped
Pool(player) == SelectSeq(player.deck \o player.hand \o player.battlefield \o player.graveyard \o player.exileActive \o player.exilePermanent, LAMBDA c : c.isToken = "absent")

\* a next-game reset that shuffles the tokens into the deck as well
NextGameKeepsTokens(player) == {DealHand([player EXCEPT !.deck = d, !.hand = <<>>, !.battlefield = <<>>, !.graveyard = <<>>, !.exileActive = <<>>, !.exilePermanent = <<>>, !.life = <<[delta |-> 0, total |-> StartLife]>>, !.counters = [poison |-> 0, energy |-> 0, experience |-> 0], !.mulliganCount = 0, !.hasKeptHand = FALSE, !.readyForNextGame = FALSE]) : d \in Perms(player.deck \o player.hand \o player.battlefield \o player.graveyard \o player.exileActive \o player.exilePermanent)}

\* startNextGame's loop body for one player: the players it can leave (any shuffle)
NextGamePlayer(player) == {DealHand([player EXCEPT !.deck = d, !.hand = <<>>, !.battlefield = <<>>, !.graveyard = <<>>, !.exileActive = <<>>, !.exilePermanent = <<>>, !.life = <<[delta |-> 0, total |-> StartLife]>>, !.counters = [poison |-> 0, energy |-> 0, experience |-> 0], !.mulliganCount = 0, !.hasKeptHand = FALSE, !.readyForNextGame = FALSE]) : d \in Perms([i \in 1..Len(Pool(player)) |-> ResetCard(Pool(player)[i])])}

\* startNextGame(room), without its broadcast; called with both seats filled
startNextGame(state) == {[state EXCEPT !.players = <<p0, IF state.isGoldfishMode THEN [p1 EXCEPT !.hasKeptHand = TRUE, !.readyForNextGame = TRUE] ELSE p1>>, !.phase = "mulligan", !.turn = [number |-> 0, activePlayer |-> 0, phase |-> "pre-game"]] : p0 \in NextGamePlayer(state.players[1]), p1 \in NextGamePlayer(state.players[2])}

\* case 'READY_FOR_NEXT_GAME'
DoReadyForNextGame(state, playerIndex, a) == LET ready == SetPlayer(state, playerIndex, [PlayerAt(state, playerIndex) EXCEPT !.readyForNextGame = TRUE]) other == PlayerAt(ready, Other(playerIndex)) IN IF ready.isGoldfishMode \/ (other # Null /\ other.readyForNextGame) THEN IF ready.players[1] = Null \/ ready.players[2] = Null THEN {Out(ready)} ELSE {[Out(s) EXCEPT !.bcasts = 2] : s \in startNextGame(ready)} ELSE {Out(ready)}

Miss == [zone |-> "", index |-> 0]

InZones(player, instanceId) == IF player = Null THEN Miss ELSE findCardInZones(player, instanceId)

OnStack(stack, instanceId) == IF FindIndex(stack, instanceId) # 0 THEN [playerIndex |-> 0, zone |-> "stack", index |-> FindIndex(stack, instanceId)] ELSE [playerIndex |-> 0, zone |-> "", index |-> 0]

Hit(hit, playerIndex) == [playerIndex |-> playerIndex, zone |-> hit.zone, index |-> hit.index]

FirstHit(h0, h1, hs) == IF h0.zone # "" THEN Hit(h0, 0) ELSE IF h1.zone # "" THEN Hit(h1, 1) ELSE hs

\* findCardInGameState(state, instanceId): both players' zones in the order of
\* findCardInZones, then the shared stack; zone "" for null
findCardInGameState(state, instanceId) == FirstHit(InZones(state.players[1], instanceId), InZones(state.players[2], instanceId), OnStack(state.stack, instanceId))

\* the card object a hit on a battlefield refers to
CardAt(state, hit) == state.players[hit.playerIndex + 1].battlefield[hit.index]

\* attachments.filter(id => id !== instanceId)
Without(ids, instanceId) == SelectSeq(ids, LAMBDA x : x # instanceId)

\* the attachments of the card a hit refers to lose instanceId, if the hit is on a battlefield
Unlink(state, hit, instanceId) == IF hit.zone = "battlefield" THEN [state EXCEPT !.players[hit.playerIndex + 1].battlefield[hit.index].attachments = Without(@, instanceId)] ELSE state

\* if (!target.attachments.includes(id)) target.attachments.push(id)
AddOnce(ids, instanceId) == IF instanceId \in Range(ids) THEN ids ELSE Append(ids, instanceId)

\* target.attachments gets the id unless it has it
Link(state, hit, instanceId) == [state EXCEPT !.players[hit.playerIndex + 1].battlefield[hit.index].attachments = AddOnce(@, instanceId)]

\* card.attachedTo = target.instanceId; card.position = target.position
Bind(state, hit, target) == [state EXCEPT !.players[hit.playerIndex + 1].battlefield[hit.index].attachedTo = target.instanceId, !.players[hit.playerIndex + 1].battlefield[hit.index].position = target.position]

\* the previous host of a card: the hit for card.attachedTo, a miss when the card has none
HostOf(state, card) == IF card.attachedTo = NoId THEN [playerIndex |-> 0, zone |-> "", index |-> 0] ELSE findCardInGameState(state, card.attachedTo)

\* the body of case 'ATTACH_CARD' for the two cards found
Attach(state, ci, ti) == IF ci.zone # "battlefield" \/ ti.zone # "battlefield" THEN state ELSE IF CardAt(state, ci).instanceId = CardAt(state, ti).instanceId THEN state ELSE Bind(Link(Unlink(state, HostOf(state, CardAt(state, ci)), CardAt(state, ci).instanceId), ti, CardAt(state, ci).instanceId), ci, CardAt(state, ti))

\* case 'ATTACH_CARD' (position, like attachedTo, is not touched by the two list updates)
DoAttachCard(state, playerIndex, a) == {Out(Attach(state, findCardInGameState(state, a.instanceId), findCardInGameState(state, a.targetId)))}

\* card.position.x becomes Math.min(90, x + 10) when the card has a position
Offset(position) == IF position = NoPos THEN NoPos ELSE [x |-> Min(90, position.x + 10), y |-> position.y]

\* the body of case 'DETACH_CARD' for the card found
Detach(state, ci) == IF ci.zone # "battlefield" THEN state ELSE IF CardAt(state, ci).attachedTo = NoId THEN state ELSE [Unlink(state, HostOf(state, CardAt(state, ci)), CardAt(state, ci).instanceId) EXCEPT !.players[ci.playerIndex + 1].battlefield[ci.index].attachedTo = NoId, !.players[ci.playerIndex + 1].battlefield[ci.index].position = Offset(@)]

\* case 'DETACH_CARD'
DoDetachCard(state, playerIndex, a) == {Out(Detach(state, findCardInGameState(state, a.instanceId)))}

\* c.zIndex ?? 1
ZOf(c) == IF c.zIndex = <<>> THEN 1 ELSE c.zIndex[1]

\* let maxZIndex = 1; for (const c of battlefield) if ((c.zIndex ?? 1) > maxZIndex) maxZIndex = ...
MaxZ(battlefield) == CHOOSE m \in {1} \cup {ZOf(battlefield[i]) : i \in 1..Len(battlefield)} : \A i \in 1..Len(battlefield) : ZOf(battlefield[i]) <= m

\* the body of case 'BRING_TO_FRONT' for the card found
Front(state, ci) == IF ci.zone # "battlefield" THEN state ELSE [state EXCEPT !.players[ci.playerIndex + 1].battlefield[ci.index].zIndex = <<MaxZ(state.players[ci.playerIndex + 1].battlefield) + 1>>]

\* case 'BRING_TO_FRONT'
DoBringToFront(state, playerIndex, a) == {Out(Front(state, findCardInGameState(state, a.instanceId)))}

\* case 'MOVE_CARD_ON_ANY_BATTLEFIELD'
DoMoveCardOnAnyBattlefield(state, playerIndex, a) == LET ci == findCardInGameState(state, a.instanceId) IN IF ci.zone # "battlefield" THEN {Out(state)} ELSE {Out([state EXCEPT !.players[ci.playerIndex + 1].battlefield[ci.index].position = a.position])}

\* the loop of case 'SEND_TO_BACK' and the assignment after it: every card of
\* the battlefield with another instanceId goes up by one, the card found gets 1
Bumped(battlefield, index) == [i \in 1..Len(battlefield) |-> IF battlefield[i].instanceId # battlefield[index].instanceId THEN [battlefield[i] EXCEPT !.zIndex = <<ZOf(battlefield[i]) + 1>>] ELSE IF i = index THEN [battlefield[i] EXCEPT !.zIndex = <<1>>] ELSE battlefield[i]]

\* the body of case 'SEND_TO_BACK' for the card found
SentBack(state, ci) == IF ci.zone # "battlefield" THEN state ELSE [state EXCEPT !.players[ci.playerIndex + 1].battlefield = Bumped(state.players[ci.playerIndex + 1].battlefield, ci.index)]

\* case 'SEND_TO_BACK'
DoSendToBack(state, playerIndex, a) == {Out(SentBack(state, findCardInGameState(state, a.instanceId)))}

\* Array.prototype.slice(0, n)
Slice0(s, n) == IF n >= 0 THEN SubSeq(s, 1, Min(n, Len(s))) ELSE SubSeq(s, 1, IF Len(s) + n > 0 THEN Len(s) + n ELSE 0)

\* the map callback of the reveal payloads: the identity of a card, nothing else
RevealCard(c) == [instanceId |-> c.instanceId, name |-> c.name, imageUri |-> c.imageUri, backImageUri |-> c.backImageUri]

CardsRevealed(revealerName, source, cards) == [type |-> "CARDS_REVEALED", revealerName |-> revealerName, source |-> source, cards |-> [i \in 1..Len(cards) |-> RevealCard(cards[i])]]

\* case 'PEEK_OPPONENT_LIBRARY': sendToPlayer, log, and return ACK without the trailing broadcast
DoPeekOpponentLibrary(state, playerIndex, a) == LET opponent == PlayerAt(state, Other(playerIndex)) IN IF opponent = Null THEN {Out(state)} ELSE IF Len(opponent.deck) = 0 THEN {Out(state)} ELSE {[state |-> addLogEntry(state, playerIndex, "PEEK_OPPONENT_LIBRARY"), bcasts |-> 0, side |-> <<[via |-> "sendToPlayer", message |-> CardsRevealed(opponent.name, "Library", Slice0(opponent.deck, Min(a.count, Len(opponent.deck))))]>>, ret |-> "ACK", fresh |-> 0]}

\* case 'REVEAL_HAND'
DoRevealHand(state, playerIndex, a) == {[Out(addLogEntry(state, playerIndex, "REVEAL_HAND")) EXCEPT !.side = <<[via |-> "sendToOpponent", message |-> CardsRevealed(PlayerAt(state, playerIndex).name, "Hand", PlayerAt(state, playerIndex).hand)]>>]}

RECURSIVE FoundCards(_, _)
\* instanceIds.map(id => this.findCardInZones(player, id)).filter(Boolean)
FoundCards(player, ids) == IF ids = <<>> THEN <<>> ELSE LET hit == findCardInZones(player, Head(ids)) IN (IF hit.zone = "" THEN <<>> ELSE <<player[hit.zone][hit.index]>>) \o FoundCards(player, Tail(ids))

\* case 'REVEAL_CARDS_TO_OPPONENT' (source: action.source || 'Cards')
DoRevealCardsToOpponent(state, playerIndex, a) == LET cards == FoundCards(PlayerAt(state, playerIndex), a.instanceIds) IN IF Len(cards) > 0 THEN {[Out(addLogEntry(state, playerIndex, "REVEAL_CARDS_TO_OPPONENT")) EXCEPT !.side = <<[via |-> "sendToOpponent", message |-> CardsRevealed(PlayerAt(state, playerIndex).name, "Cards", cards)]>>]} ELSE {Out(state)}

\* switch (action.type)
Interpret(state, playerIndex, a) == CASE a.type = "ENABLE_GOLDFISH" -> DoEnableGoldfish(state, playerIndex, a) [] a.type = "DRAW_CARDS" -> DoDrawCards(state, playerIndex, a) [] a.type = "SHUFFLE_DECK" -> DoShuffleDeck(state, playerIndex, a) [] a.type = "PUT_ON_TOP" -> DoPutOnTop(state, playerIndex, a) [] a.type = "PUT_ON_BOTTOM" -> DoPutOnBottom(state, playerIndex, a) [] a.type = "TAP_CARD" -> DoTapCard(state, playerIndex, a) [] a.type = "UNTAP_CARD" -> DoUntapCard(state, playerIndex, a) [] a.type = "UNTAP_ALL" -> DoUntapAll(state, playerIndex, a) [] a.type = "MOVE_CARD" -> DoMoveCard(state, playerIndex, a) [] a.type = "FLIP_CARD" -> DoFlipCard(state, playerIndex, a) [] a.type = "MOVE_TO_OPPONENT_BATTLEFIELD" -> DoMoveToOpponentBattlefield(state, playerIndex, a) [] a.type = "TAKE_FROM_OPPONENT_BATTLEFIELD" -> DoTakeFromOpponentBattlefield(state, playerIndex, a) [] a.type = "MULLIGAN_KEEP" -> DoMulliganKeep(state, playerIndex, a) [] a.type = "MULLIGAN_AGAIN" -> DoMulliganAgain(state, playerIndex, a) [] a.type = "BOTTOM_CARDS" -> DoBottomCards(state, playerIndex, a) [] a.type = "UPDATE_LIFE" -> DoUpdateLife(state, playerIndex, a) [] a.type = "CREATE_TOKEN" -> DoCreateToken(state, playerIndex, a) [] a.type = "DESTROY_TOKEN" -> DoDestroyToken(state, playerIndex, a) [] a.type = "CONCEDE" -> DoConcede(state, playerIndex, a) [] a.type = "DECLARE_WINNER" -> DoDeclareWinner(state, playerIndex, a) [] a.type = "READY_FOR_NEXT_GAME" -> DoReadyForNextGame(state, playerIndex, a) [] a.type = "SWAP_SIDEBOARD" -> DoSwapSideboard(state, playerIndex, a) [] a.type = "PASS_TURN" -> DoPassTurn(state, playerIndex, a) [] a.type = "ATTACH_CARD" -> DoAttachCard(state, playerIndex, a) [] a.type = "DETACH_CARD" -> DoDetachCard(state, playerIndex, a) [] a.type = "MOVE_CARD_POSITION" -> DoMoveCardPosition(state, playerIndex, a) [] a.type = "TRANSFORM_CARD" -> DoTransformCard(state, playerIndex, a) [] a.type = "ADD_COUNTER" -> DoAddCounter(state, playerIndex, a) [] a.type = "REMOVE_COUNTER" -> DoRemoveCounter(state, playerIndex, a) [] a.type = "SET_PLAYER_COUNTER" -> DoSetPlayerCounter(state, playerIndex, a) [] a.type = "MOVE_CARD_ON_ANY_BATTLEFIELD" -> DoMoveCardOnAnyBattlefield(state, playerIndex, a) [] a.type = "BRING_TO_FRONT" -> DoBringToFront(state, playerIndex, a) [] a.type = "SEND_TO_BACK" -> DoSendToBack(state, playerIndex, a) [] a.type = "PEEK_OPPONENT_LIBRARY" -> DoPeekOpponentLibrary(state, playerIndex, a) [] a.type = "REVEAL_HAND" -> DoRevealHand(state, playerIndex, a) [] a.type = "REVEAL_CARDS_TO_OPPONENT" -> DoRevealCardsToOpponent(state, playerIndex, a) [] OTHER -> DoDefault(state, playerIndex, a)

---------------------------------------------------------------------------
(* processAction(ws, action) and the reply the message handler sends *)

NoRoom == [none |-> TRUE]

LastN(s, n) == IF Len(s) > n THEN SubSeq(s, Len(s) - n + 1, Len(s)) ELSE s

Times(msgs, n) == IF n = 0 THEN <<>> ELSE IF n = 1 THEN msgs ELSE msgs \o msgs

\* the properties createSaveCode writes (savedAt is a Date.now() value)
SaveFields == {"players", "stack", "phase", "currentGame", "gameResults", "turn"}

\* a save code that leaves the stack out
SaveCodeWithoutStack(room) == [tag |-> "PM1_", json |-> TRUE, has |-> SaveFields \ {"stack"}, data |-> [players |-> room.state.players, stack |-> room.state.stack, phase |-> room.state.phase, currentGame |-> room.state.currentGame, gameResults |-> room.state.gameResults, turn |-> room.state.turn]]

\* createSaveCode(room): the tag, then the base64 of the JSON text of saveData.
\* A code is [tag, json, has, data]: json tells whether the text after the tag
\* decodes to a JSON value, has names the properties of that value.
createSaveCode(room) == [tag |-> "PM1_", json |-> TRUE, has |-> SaveFields, data |-> [players |-> room.state.players, stack |-> room.state.stack, phase |-> room.state.phase, currentGame |-> room.state.currentGame, gameResults |-> room.state.gameResults, turn |-> room.state.turn]]

\* saveData.<name> || fallback for a property that holds an array or an object when present
OrElse(code, name, fallback) == IF name \notin code.has THEN fallback ELSE code.data[name]

\* a load that keeps the history
LoadKeepsHistory(room, code) == IF code.tag # "PM1_" \/ ~code.json \/ "players" \notin code.has \/ "phase" \notin code.has THEN [room |-> room, success |-> FALSE] ELSE [room |-> [room EXCEPT !.state.players = code.data.players, !.state.stack = code.data.stack, !.state.phase = code.data.phase, !.state.currentGame = code.data.currentGame, !.state.gameResults = code.data.gameResults, !.state.turn = code.data.turn], success |-> TRUE]

\* a load that checks the tag and the decoding but not the shape of the record
LoadWithoutShapeCheck(room, code) == IF code.tag # "PM1_" \/ ~code.json THEN [room |-> room, success |-> FALSE] ELSE [room |-> [room EXCEPT !.state.players = OrElse(code, "players", <<Null, Null>>), !.state.stack = OrElse(code, "stack", <<>>), !.state.phase = OrElse(code, "phase", "lobby"), !.stateHistory = <<>>, !.historyIndex = -1], success |-> TRUE]

\* loadSaveCode(room, code): the room it leaves and the flag it returns
loadSaveCode(room, code) == IF code.tag # "PM1_" THEN [room |-> room, success |-> FALSE] ELSE IF ~code.json THEN [room |-> room, success |-> FALSE] ELSE IF "players" \notin code.has \/ "phase" \notin code.has \/ code.data.phase = "" THEN [room |-> room, success |-> FALSE] ELSE [room |-> [room EXCEPT !.state.players = code.data.players, !.state.stack = OrElse(code, "stack", <<>>), !.state.phase = code.data.phase, !.state.currentGame = (IF "currentGame" \notin code.has \/ code.data.currentGame = 0 THEN 1 ELSE code.data.currentGame), !.state.gameResults = OrElse(code, "gameResults", <<>>), !.state.turn = OrElse(code, "turn", [number |-> 1, activePlayer |-> 0, phase |-> "Main"]), !.stateHistory = <<>>, !.historyIndex = -1], success |-> TRUE]

\* what every path through processAction ends with: the room it leaves, the messages sent;
\* the client that gets GAME_SAVED holds the code from then on
Finish(w, a, rid, room, msgs, ok, fresh) == /\ rooms' = (IF rid = 0 THEN rooms ELSE [rooms EXCEPT ![rid] = room]) /\ outbox' = msgs /\ last' = [op |-> "GAME_ACTION", ws |-> w, room |-> rid, action |-> a, ok |-> ok, before |-> (IF rid = 0 THEN NoRoom ELSE rooms[rid])] /\ trail' = (IF rid = 0 THEN trail ELSE LastN(Append(trail, [room |-> rid, type |-> a.type, ok |-> ok, before |-> rooms[rid].state, after |-> room.state]), TrailLen)) /\ uuid' = uuid + fresh /\ steps' = steps - 1 /\ codes' = (IF a.type = "SAVE_GAME" /\ ok THEN codes \cup {[code |-> createSaveCode(room), room |-> rid, at |-> room.state]} ELSE codes) /\ UNCHANGED <<games, sock, timers, sanIn, sanOut>>

\* if (action.type === 'UNDO') / 'REDO': broadcast only on success, ACK with the flag
MetaUndoRedo(w, a, rid, res) == Finish(w, a, rid, res.room, (IF res.success THEN broadcastStateUpdate(res.room) ELSE <<>>) \o Reply(w, [type |-> "ACK", action |-> a.type, success |-> res.success]), res.success, 0)

\* sendToOpponent(room, playerIndex, message)
sendToOpponent(room, playerIndex, message) == SendAll(SelectSeq(OpenConns(room), LAMBDA c : c.playerIndex = Other(playerIndex)), message)

\* sendToPlayer(room, playerId, message): room.players.get(playerId), if open
sendToPlayer(room, playerId, message) == SendAll(SelectSeq(OpenConns(room), LAMBDA c : c.playerId = playerId), message)

\* the side-channel sends of a case of the switch, made by the acting player
Deliver(room, info, side) == IF side = <<>> THEN <<>> ELSE IF side[1].via = "sendToPlayer" THEN sendToPlayer(room, info.playerId, side[1].message) ELSE sendToOpponent(room, info.playerIndex, side[1].message)

\* if (action.type === 'SAVE_GAME'): the code goes back in GAME_SAVED, nothing changes
MetaSave(w, a, rid) == Finish(w, a, rid, rooms[rid], Reply(w, [type |-> "GAME_SAVED", saveCode |-> createSaveCode(rooms[rid])]), TRUE, 0)

\* if (action.type === 'LOAD_GAME'): broadcast and GAME_LOADED on success, else ERROR
MetaLoad(w, a, rid, res) == Finish(w, a, rid, res.room, (IF res.success THEN broadcastStateUpdate(res.room) \o Reply(w, [type |-> "GAME_LOADED", success |-> TRUE]) ELSE Reply(w, ErrorMsg("LOAD_FAILED"))), res.success, 0)

\* this.saveStateSnapshot(room); switch (...); this.broadcastStateUpdate(room); return ACK
Switch(w, a, rid, playerIndex, snap) == \E out \in Interpret(snap.state, playerIndex, a) : Finish(w, a, rid, [snap EXCEPT !.state = out.state], Deliver(snap, getPlayerBySocket(w), out.side) \o Times(broadcastStateUpdate([snap EXCEPT !.state = out.state]), out.bcasts) \o Reply(w, IF out.ret = "ACK" THEN [type |-> "ACK", action |-> a.type] ELSE ErrorMsg(out.ret)), out.ret = "ACK", out.fresh)

processAction(w, a) == /\ IsOpen(w) /\ LET info == getPlayerBySocket(w) IN IF info.room = 0 THEN Finish(w, a, 0, NoRoom, Reply(w, ErrorMsg("NOT_IN_GAME")), FALSE, 0) ELSE IF PlayerAt(rooms[info.room].state, info.playerIndex) = Null THEN Finish(w, a, info.room, rooms[info.room], Reply(w, ErrorMsg("INVALID_STATE")), FALSE, 0) ELSE IF a.type = "UNDO" THEN MetaUndoRedo(w, a, info.room, undoAction(rooms[info.room])) ELSE IF a.type = "REDO" THEN MetaUndoRedo(w, a, info.room, redoAction(rooms[info.room])) ELSE IF a.type = "SAVE_GAME" THEN MetaSave(w, a, info.room) ELSE IF a.type = "LOAD_GAME" THEN MetaLoad(w, a, info.room, loadSaveCode(rooms[info.room], a.code)) ELSE Switch(w, a, info.room, info.playerIndex, saveStateSnapshot(rooms[info.room]))

---------------------------------------------------------------------------
(* GAME_ACTION requests: one action per action type, inputs from small sets *)

InRoom(w) == getPlayerBySocket(w).room # 0

Me(w) == PlayerAt(rooms[getPlayerBySocket(w).room].state, getPlayerBySocket(w).playerIndex)

Opp(w) == PlayerAt(rooms[getPlayerBySocket(w).room].state, Other(getPlayerBySocket(w).playerIndex))

IdsOf(cards) == {cards[i].instanceId : i \in 1..Len(cards)}

\* the ids a request names: those of the sender's cards, of the other cards of the room, and one of no card
MyIds(w) == IF Me(w) = Null THEN {} ELSE IdsOf(PlayerCards(Me(w)))

RoomIds(w) == IdsOf(AllCards(rooms[getPlayerBySocket(w).room].state))

AnyZone == ZoneNames \cup {"stack", "library"}

Positions == {NoPos, [x |-> 85, y |-> 20]}

\* a MOVE_CARD that finds its card keeps every variant; one that misses is kept in a few
Holds(w, id, from) == IF from = "stack" THEN id \in IdsOf(rooms[getPlayerBySocket(w).room].state.stack) ELSE from \in ZoneNames /\ Me(w) # Null /\ id \in IdsOf(Me(w)[from])

MoveShapes == {[to |-> t, position |-> NoPos, faceDown |-> FALSE] : t \in AnyZone} \cup {[to |-> "battlefield", position |-> [x |-> 85, y |-> 20], faceDown |-> d] : d \in BOOLEAN} \cup {[to |-> t, position |-> NoPos, faceDown |-> TRUE] : t \in {"battlefield", "exileActive", "hand"}}

MoveOf(id, from, sh) == [type |-> "MOVE_CARD", instanceId |-> id, from |-> from, to |-> sh.to, position |-> sh.position, faceDown |-> sh.faceDown]

MoveInputs(w) == {MoveOf(x[1], x[2], sh) : x \in {y \in (RoomIds(w) \cup {GhostId}) \X AnyZone : Holds(w, y[1], y[2])}, sh \in MoveShapes} \cup {MoveOf(id, f, [to |-> t, position |-> NoPos, faceDown |-> d]) : id \in MyIds(w) \cup {GhostId}, f \in {"hand", "library", "stack"}, t \in {"battlefield", "graveyard"}, d \in BOOLEAN}

IdLists(ids) == {<<i>> : i \in ids} \cup {<<i, j>> : i \in ids, j \in ids}

Sender(w, a) == InRoom(w) /\ processAction(w, a)

EnableGoldfish == steps > 0 /\ \E w \in Sockets : Sender(w, [type |-> "ENABLE_GOLDFISH"])

DrawCards == steps > 0 /\ \E w \in Sockets, n \in {0, 2} : Sender(w, [type |-> "DRAW_CARDS", count |-> n])

ShuffleDeck == steps > 0 /\ \E w \in Sockets : Sender(w, [type |-> "SHUFFLE_DECK"])

PutOnTop == steps > 0 /\ \E w \in Sockets : InRoom(w) /\ Me(w) # Null /\ \E ids \in IdLists(IdsOf(Me(w).deck) \cup {GhostId}) : processAction(w, [type |-> "PUT_ON_TOP", instanceIds |-> ids])

PutOnBottom == steps > 0 /\ \E w \in Sockets : InRoom(w) /\ Me(w) # Null /\ \E ids \in IdLists(IdsOf(Me(w).deck) \cup {GhostId}) : processAction(w, [type |-> "PUT_ON_BOTTOM", instanceIds |-> ids])

TapCard == steps > 0 /\ \E w \in Sockets : InRoom(w) /\ \E id \in MyIds(w) \cup {GhostId} : processAction(w, [type |-> "TAP_CARD", instanceId |-> id])

UntapCard == steps > 0 /\ \E w \in Sockets : InRoom(w) /\ \E id \in MyIds(w) \cup {GhostId} : processAction(w, [type |-> "UNTAP_CARD", instanceId |-> id])

UntapAll == steps > 0 /\ \E w \in Sockets : Sender(w, [type |-> "UNTAP_ALL"])

FlipCard == steps > 0 /\ \E w \in Sockets : InRoom(w) /\ \E id \in MyIds(w) \cup {GhostId} : processAction(w, [type |-> "FLIP_CARD", instanceId |-> id])

MoveCardPosition == steps > 0 /\ \E w \in Sockets : InRoom(w) /\ \E id \in MyIds(w) \cup {GhostId} : processAction(w, [type |-> "MOVE_CARD_POSITION", instanceId |-> id, position |-> [x |-> 85, y |-> 20]])

TransformCard == steps > 0 /\ \E w \in Sockets : InRoom(w) /\ \E id \in MyIds(w) \cup {GhostId} : processAction(w, [type |-> "TRANSFORM_CARD", instanceId |-> id])

AddCounter == steps > 0 /\ \E w \in Sockets : InRoom(w) /\ \E id \in MyIds(w) \cup {GhostId} : processAction(w, [type |-> "ADD_COUNTER", instanceId |-> id, counter |-> [type |-> "+1/+1", value |-> 1]])

RemoveCounter == steps > 0 /\ \E w \in Sockets : InRoom(w) /\ \E id \in MyIds(w) \cup {GhostId}, i \in {0, 1} : processAction(w, [type |-> "REMOVE_COUNTER", instanceId |-> id, counterIndex |-> i])

SetPlayerCounter == steps > 0 /\ \E w \in Sockets : InRoom(w) /\ \E v \in {-1, 3} : processAction(w, [type |-> "SET_PLAYER_COUNTER", counterType |-> "poison", value |-> v])

MoveCardOnAnyBattlefield == steps > 0 /\ \E w \in Sockets : InRoom(w) /\ \E id \in RoomIds(w) \cup {GhostId} : processAction(w, [type |-> "MOVE_CARD_ON_ANY_BATTLEFIELD", instanceId |-> id, position |-> [x |-> 85, y |-> 20]])

MoveCard == steps > 0 /\ \E w \in Sockets : InRoom(w) /\ \E a \in MoveInputs(w) : processAction(w, a)

MoveToOpponentBattlefield == steps > 0 /\ \E w \in Sockets : InRoom(w) /\ \E id \in MyIds(w) \cup {GhostId}, from \in AnyZone, pos \in Positions : (Holds(w, id, from) \/ from = "hand") /\ processAction(w, [type |-> "MOVE_TO_OPPONENT_BATTLEFIELD", instanceId |-> id, from |-> from, position |-> pos])

TakeFromOpponentBattlefield == steps > 0 /\ \E w \in Sockets : InRoom(w) /\ \E id \in RoomIds(w) \cup {GhostId}, to \in AnyZone, pos \in Positions : ((Opp(w) # Null /\ id \in IdsOf(Opp(w).battlefield)) \/ (id = GhostId /\ to = "hand")) /\ processAction(w, [type |-> "TAKE_FROM_OPPONENT_BATTLEFIELD", instanceId |-> id, to |-> to, position |-> pos])

MulliganKeep == steps > 0 /\ \E w \in Sockets : Sender(w, [type |-> "MULLIGAN_KEEP"])

MulliganAgain == steps > 0 /\ \E w \in Sockets : Sender(w, [type |-> "MULLIGAN_AGAIN"])

BottomCards == steps > 0 /\ \E w \in Sockets : InRoom(w) /\ Me(w) # Null /\ \E ids \in IdLists(IdsOf(Me(w).hand) \cup {GhostId}) : processAction(w, [type |-> "BOTTOM_CARDS", instanceIds |-> ids])

UpdateLife == steps > 0 /\ \E w \in Sockets, d \in {-3, 2} : Sender(w, [type |-> "UPDATE_LIFE", delta |-> d])

CreateToken == steps > 0 /\ \E w \in Sockets, t \in TokenPayloads : Sender(w, [type |-> "CREATE_TOKEN", token |-> t])

DestroyToken == steps > 0 /\ \E w \in Sockets : InRoom(w) /\ \E id \in MyIds(w) \cup {GhostId} : processAction(w, [type |-> "DESTROY_TOKEN", instanceId |-> id])

Concede == steps > 0 /\ \E w \in Sockets : Sender(w, [type |-> "CONCEDE"])

DeclareWinner == steps > 0 /\ \E w \in Sockets, r \in {"player1", "player2", "draw"} : Sender(w, [type |-> "DECLARE_WINNER", winner |-> r])

ReadyForNextGame == steps > 0 /\ \E w \in Sockets : Sender(w, [type |-> "READY_FOR_NEXT_GAME"])

SwapSideboard == steps > 0 /\ \E w \in Sockets, m \in {-1, 0, 1, 4}, sb \in {0, 1} : Sender(w, [type |-> "SWAP_SIDEBOARD", mainDeckIndex |-> m, sideboardIndex |-> sb])

PassTurn == steps > 0 /\ \E w \in Sockets : Sender(w, [type |-> "PASS_TURN"])

AttachCard == steps > 0 /\ \E w \in Sockets : InRoom(w) /\ \E c \in RoomIds(w) \cup {GhostId}, t \in RoomIds(w) \cup {GhostId} : processAction(w, [type |-> "ATTACH_CARD", instanceId |-> c, targetId |-> t])

\* BRING_TO_FRONT and SEND_TO_BACK name any card of the room
BringToFront == steps > 0 /\ \E w \in Sockets : InRoom(w) /\ \E id \in RoomIds(w) \cup {GhostId} : processAction(w, [type |-> "BRING_TO_FRONT", instanceId |-> id])

SendToBack == steps > 0 /\ \E w \in Sockets : InRoom(w) /\ \E id \in RoomIds(w) \cup {GhostId} : processAction(w, [type |-> "SEND_TO_BACK", instanceId |-> id])

DetachCard == steps > 0 /\ \E w \in Sockets : InRoom(w) /\ \E c \in RoomIds(w) \cup {GhostId} : processAction(w, [type |-> "DETACH_CARD", instanceId |-> c])

PeekOpponentLibrary == steps > 0 /\ \E w \in Sockets, n \in {-1, 0, 1, 3} : Sender(w, [type |-> "PEEK_OPPONENT_LIBRARY", count |-> n])

RevealHand == steps > 0 /\ \E w \in Sockets : Sender(w, [type |-> "REVEAL_HAND"])

RevealCardsToOpponent == steps > 0 /\ \E w \in Sockets : InRoom(w) /\ \E ids \in IdLists(RoomIds(w) \cup {GhostId}) : processAction(w, [type |-> "REVEAL_CARDS_TO_OPPONENT", instanceIds |-> ids])

\* a client keeps at most MaxCodes save codes
SaveGame == steps > 0 /\ Cardinality(codes) < MaxCodes /\ \E w \in Sockets : Sender(w, [type |-> "SAVE_GAME"])

\* the codes a client makes up from a saved one: another tag, text that is no JSON,
\* a record without players, one without phase, one with players and phase only
Tampered(code) == {[code EXCEPT !.tag = "PM2_"], [code EXCEPT !.json = FALSE], [code EXCEPT !.has = @ \ {"players"}], [code EXCEPT !.has = @ \ {"phase"}], [code EXCEPT !.has = {"players", "phase"}]}

\* LOAD_GAME with a code some client was given, by this room or another, or with one made up
LoadGame == steps > 0 /\ \E w \in Sockets : InRoom(w) /\ \E code \in {c.code : c \in codes} \cup Tampered(createSaveCode(rooms[getPlayerBySocket(w).room])) : processAction(w, [type |-> "LOAD_GAME", code |-> code])

\* an action type the server does not implement
UnknownAction == steps > 0 /\ \E w \in Sockets : Sender(w, [type |-> "FROBNICATE"])

Undo == steps > 0 /\ \E w \in Sockets : Sender(w, [type |-> "UNDO"])

Redo == steps > 0 /\ \E w \in Sockets : Sender(w, [type |-> "REDO"])

\* a GAME_ACTION from a socket that is in no room
ActionOutsideRoom == steps > 0 /\ \E w \in Sockets : ~InRoom(w) /\ processAction(w, [type |-> "PASS_TURN"])

---------------------------------------------------------------------------
(* SpecGame: one room in which a match has been started.                          *)
(* Its initial states are states of the room "ABC123" after CREATE_GAME by w1,    *)
(* JOIN_GAME by w2, SUBMIT_DECK by both (Ann: Forest, Delver and a Forest in the  *)
(* sideboard; Bob: a Delver), START_GAME, and then up to two moves of the switch  *)
(* below, with the undo history emptied as SAVE_GAME followed by LOAD_GAME leaves *)
(* it.                                                                            *)

NoLast == [op |-> "none", ws |-> "", room |-> 0, action |-> [type |-> ""], ok |-> FALSE, before |-> NoRoom]

StartedState == {[createGameState("ABC123", hashPassword("pw1")) EXCEPT !.players = <<[createPlayer(Uuid(1), "Ann") EXCEPT !.hand = h, !.sideboard = <<NewCard(Forest, Uuid(5))>>], [createPlayer(Uuid(2), "Bob") EXCEPT !.hand = <<NewCard(Delver, Uuid(6))>>]>>, !.phase = "mulligan", !.turn = [number |-> 0, activePlayer |-> 0, phase |-> "pre-game"]] : h \in {<<NewCard(Forest, Uuid(3)), NewCard(Delver, Uuid(4))>>}}

After(S, playerIndex, a) == UNION {{o.state : o \in Interpret(s, playerIndex, a)} : s \in S}

SetupMoves0 == {[type |-> "FROBNICATE"], [type |-> "MOVE_CARD", instanceId |-> Uuid(4), from |-> "hand", to |-> "deck", position |-> NoPos, faceDown |-> FALSE], [type |-> "MOVE_CARD", instanceId |-> Uuid(4), from |-> "hand", to |-> "battlefield", position |-> [x |-> 50, y |-> 50], faceDown |-> TRUE], [type |-> "MOVE_CARD", instanceId |-> Uuid(4), from |-> "hand", to |-> "stack", position |-> NoPos, faceDown |-> FALSE], [type |-> "MOVE_TO_OPPONENT_BATTLEFIELD", instanceId |-> Uuid(4), from |-> "hand", position |-> NoPos]}

SetupMoves1 == {[type |-> "FROBNICATE"], [type |-> "MOVE_CARD", instanceId |-> Uuid(6), from |-> "hand", to |-> "deck", position |-> NoPos, faceDown |-> FALSE], [type |-> "MOVE_CARD", instanceId |-> Uuid(6), from |-> "hand", to |-> "battlefield", position |-> [x |-> 50, y |-> 50], faceDown |-> FALSE]}

GameStates == UNION {After(After(StartedState, 0, a0), 1, a1) : a0 \in SetupMoves0, a1 \in SetupMoves1}

TwoSeats == <<[playerId |-> Uuid(1), ws |-> "w1", playerIndex |-> 0], [playerId |-> Uuid(2), ws |-> "w2", playerIndex |-> 1]>>

InitGame == /\ games = <<[gameId |-> "ABC123", room |-> 1]>> /\ \E s \in GameStates : rooms = <<[NewRoom(s) EXCEPT !.players = TwoSeats]>> /\ sock = ThreeClients /\ timers = <<>> /\ outbox = <<>> /\ uuid = 6 /\ steps = MaxGameSteps /\ last = NoLast /\ trail = <<>> /\ sanIn = NoRoom /\ sanOut = NoRoom /\ codes = {}

NextGame == MoveCardPosition \/ TransformCard \/ AddCounter \/ RemoveCounter \/ SetPlayerCounter \/ MoveCardOnAnyBattlefield \/ EnableGoldfish \/ DrawCards \/ ShuffleDeck \/ PutOnTop \/ PutOnBottom \/ TapCard \/ UntapCard \/ UntapAll \/ FlipCard \/ MoveCard \/ MoveToOpponentBattlefield \/ TakeFromOpponentBattlefield \/ MulliganKeep \/ MulliganAgain \/ BottomCards \/ UpdateLife \/ CreateToken \/ DestroyToken \/ Concede \/ DeclareWinner \/ ReadyForNextGame \/ SwapSideboard \/ PassTurn \/ AttachCard \/ DetachCard \/ BringToFront \/ SendToBack \/ PeekOpponentLibrary \/ RevealHand \/ RevealCardsToOpponent \/ UnknownAction \/ Undo \/ Redo \/ SaveGame \/ LoadGame \/ ActionOutsideRoom

SpecGame == InitGame /\ [][NextGame]_vars

---------------------------------------------------------------------------
(* SpecHist: the undo history of one room, from the empty history a started match *)
(* has. Bob's socket has closed and handleDisconnect has removed his connection,  *)
(* so Ann's socket w1 is the only sender.                                         *)

OneSeat == <<[playerId |-> Uuid(1), ws |-> "w1", playerIndex |-> 0]>>

InitHist == /\ games = <<[gameId |-> "ABC123", room |-> 1]>> /\ \E s \in StartedState : rooms = <<[NewRoom(s) EXCEPT !.players = OneSeat]>> /\ sock = [ThreeClients EXCEPT !["w2"] = "CLOSED"] /\ timers = <<>> /\ outbox = <<>> /\ uuid = 6 /\ steps = MaxHistSteps /\ last = NoLast /\ trail = <<>> /\ sanIn = NoRoom /\ sanOut = NoRoom /\ codes = {}

NextHist == PassTurn \/ UnknownAction \/ Undo \/ Redo

SpecHist == InitHist /\ [][NextHist]_vars

Meta == {"UNDO", "REDO"}

\* the k-th most recent GAME_ACTION of the trail (1 = the latest)
Back(k) == trail[Len(trail) - k + 1]

\* C1: a non-meta action followed at once by UNDO: the UNDO reports success and the
\* room's game state is again the state just before that action, the first action
\* of the room included.
C1_UndoRestoresPreActionState == (Len(trail) >= 2 /\ Back(2).type \notin Meta /\ Back(1).type = "UNDO") => (Back(1).ok /\ Back(1).after = Back(2).before)

\* C2: a non-meta action, a successful UNDO, then REDO at once: the REDO reports
\* success and the room's game state is the state just after that action.
C2_RedoRestoresPostActionState == (Len(trail) >= 3 /\ Back(3).type \notin Meta /\ Back(2).type = "UNDO" /\ Back(2).ok /\ Back(1).type = "REDO") => (Back(1).ok /\ Back(1).after = Back(3).after)

RedoAfterFork == Len(trail) >= 4 /\ Back(4).type = "UNDO" /\ Back(4).ok /\ Back(3).type = "UNDO" /\ Back(3).ok /\ Back(2).type \notin Meta /\ Back(1).type = "REDO"

\* C3: two successful UNDOs, then a non-meta action, then REDO: the REDO reports
\* failure and leaves the game state, the history and the cursor as they were.
C3_RedoFailsAfterFork == RedoAfterFork => (~Back(1).ok /\ ~last.ok /\ rooms[last.room].state = last.before.state /\ rooms[last.room].stateHistory = last.before.stateHistory /\ rooms[last.room].historyIndex = last.before.historyIndex)

C3_Witness == RedoAfterFork /\ Back(2).after # Back(2).before /\ Len(rooms[last.room].stateHistory) = 2

---------------------------------------------------------------------------
(* Properties of the action processor, checked under SpecGame *)

NoDup(cards) == \A i, j \in 1..Len(cards) : cards[i].instanceId = cards[j].instanceId => i = j

SeatOfLast == FirstConn(last.before, last.ws).playerIndex

ActorBefore == PlayerAt(last.before.state, SeatOfLast)

OpponentBefore == PlayerAt(last.before.state, Other(SeatOfLast))

\* the last request names a card that is not where its action type looks for it
MissesCard == LET a == last.action IN CASE a.type = "MOVE_CARD" -> (IF a.from = "stack" THEN FindIndex(last.before.state.stack, a.instanceId) = 0 ELSE (a.from \notin ZoneNames \/ FindIndex(ActorBefore[a.from], a.instanceId) = 0)) [] a.type = "TAKE_FROM_OPPONENT_BATTLEFIELD" -> (OpponentBefore = Null \/ FindIndex(OpponentBefore.battlefield, a.instanceId) = 0) [] a.type = "MOVE_TO_OPPONENT_BATTLEFIELD" -> (OpponentBefore = Null \/ a.from \notin ZoneNames \/ FindIndex(ActorBefore[a.from], a.instanceId) = 0) [] a.type \in {"TAP_CARD", "UNTAP_CARD", "FLIP_CARD"} -> findCardInZones(ActorBefore, a.instanceId).zone = "" [] OTHER -> FALSE

\* the last request names a source or destination that is no zone of the acting player
\* (MOVE_CARD also knows the shared stack)
BadZone == LET a == last.action IN CASE a.type = "MOVE_CARD" -> (a.from \notin ZoneNames \cup {"stack"} \/ a.to \notin ZoneNames \cup {"stack"}) [] a.type = "TAKE_FROM_OPPONENT_BATTLEFIELD" -> a.to \notin ZoneNames [] a.type = "MOVE_TO_OPPONENT_BATTLEFIELD" -> a.from \notin ZoneNames [] OTHER -> FALSE

\* C5: a GAME_ACTION naming a card that is not where the action looks for it, or a
\* source or destination that is no zone of the acting player, removes, adds and
\* alters no card (both players and the stack are as they were) and is answered
\* with ACK.
C5_BadReferenceIsNoOp == (last.op = "GAME_ACTION" /\ last.room # 0 /\ ActorBefore # Null /\ (MissesCard \/ BadZone)) => (rooms[last.room].state.players = last.before.state.players /\ rooms[last.room].state.stack = last.before.state.stack /\ last.ok)

UnknownServed == last.op = "GAME_ACTION" /\ last.action.type = "FROBNICATE" /\ last.room # 0 /\ ActorBefore # Null

StateUpdatesTo(ws) == {i \in 1..Len(outbox) : outbox[i].type = "STATE_UPDATE" /\ outbox[i].to = ws}

\* C6: an action type the server does not implement leaves the game state unchanged,
\* is answered with ACK, and one STATE_UPDATE goes to every open connection of the room.
C6_UnknownKindIsBroadcastNoOp == UnknownServed => (/\ rooms[last.room].state = last.before.state /\ last.ok /\ (\E i \in 1..Len(outbox) : outbox[i] = [to |-> last.ws, body |-> [type |-> "ACK", action |-> "FROBNICATE"], type |-> "ACK"]) /\ (\A i \in 1..Len(outbox) : outbox[i].type # "ERROR") /\ \A k \in 1..Len(rooms[last.room].players) : LET c == rooms[last.room].players[k] IN IsOpen(c.ws) => (Cardinality(StateUpdatesTo(c.ws)) = 1 /\ \A i \in StateUpdatesTo(c.ws) : outbox[i].body.gameState = sanitizeStateForPlayer(last.before.state, c.playerIndex)))

C6_Witness == UnknownServed /\ Len(OpenConns(rooms[last.room])) = 2 /\ Cardinality({i \in 1..Len(outbox) : outbox[i].type = "STATE_UPDATE"}) = 2 /\ Len(rooms[last.room].state.stack) = 1

---------------------------------------------------------------------------
(* Registry handlers: CREATE_GAME, JOIN_GAME, RECONNECT, SUBMIT_DECK, START_GAME, *)
(* the close event of a socket and the clean-up timer                            *)

\* what every registry handler ends with: the messages it sent and the record of the request
Served(op, w, rid, a, ok, before, msgs) == /\ outbox' = msgs /\ last' = [op |-> op, ws |-> w, room |-> rid, action |-> a, ok |-> ok, before |-> before] /\ trail' = <<>> /\ steps' = steps - 1 /\ UNCHANGED <<sanIn, sanOut, codes>>

NameOf(w) == IF w = "w1" THEN "Ann" ELSE "Bob"

\* generateGameId(): a code no live room has
FreeGameIds == {g \in GameIds : GamesGet(g) = 0}

createGame(w, gameId, playerName, password) == LET playerId == Uuid(uuid + 1) state == SetPlayer(createGameState(gameId, hashPassword(password)), 0, createPlayer(playerId, playerName)) room == [NewRoom(state) EXCEPT !.players = SetConn(<<>>, playerId, w, 0)] IN /\ rooms' = Append(rooms, room) /\ games' = Append(games, [gameId |-> gameId, room |-> Len(rooms) + 1]) /\ uuid' = uuid + 1 /\ UNCHANGED <<sock, timers>> /\ Served("CREATE_GAME", w, Len(rooms) + 1, [type |-> "CREATE_GAME", playerName |-> playerName, password |-> password], TRUE, NoRoom, Reply(w, [type |-> "GAME_CREATED", gameId |-> gameId, playerIndex |-> 0]))

CreateGame == steps > 0 /\ \E w \in Sockets, gameId \in FreeGameIds : IsOpen(w) /\ createGame(w, gameId, NameOf(w), "pw1")

\* a join whose checks test the seats before the password
JoinVerdictFullFirst(rid, password) == IF rid = 0 THEN "GAME_NOT_FOUND" ELSE IF rooms[rid].state.players[1] # Null /\ rooms[rid].state.players[2] # Null THEN "GAME_FULL" ELSE IF rooms[rid].state.passwordHash # hashPassword(password) THEN "INVALID_PASSWORD" ELSE "OK"

\* the checks of joinGame, in their order
JoinVerdict(rid, password) == IF rid = 0 THEN "GAME_NOT_FOUND" ELSE IF rooms[rid].state.passwordHash # hashPassword(password) THEN "INVALID_PASSWORD" ELSE IF rooms[rid].state.players[1] # Null /\ rooms[rid].state.players[2] # Null THEN "GAME_FULL" ELSE "OK"

Joined(room, w, playerIndex, playerId, playerName) == [room EXCEPT !.state = SetPlayer(room.state, playerIndex, createPlayer(playerId, playerName)), !.players = SetConn(room.players, playerId, w, playerIndex)]

joinGame(w, gameId, playerName, password) == LET rid == GamesGet(ToUpperCase(gameId)) verdict == JoinVerdict(rid, password) a == [type |-> "JOIN_GAME", gameId |-> gameId, playerName |-> playerName, password |-> password] IN IF verdict # "OK" THEN UNCHANGED <<games, rooms, sock, timers, uuid>> /\ Served("JOIN_GAME", w, rid, a, FALSE, (IF rid = 0 THEN NoRoom ELSE rooms[rid]), Reply(w, ErrorMsg(verdict))) ELSE LET playerIndex == IF rooms[rid].state.players[1] # Null THEN 1 ELSE 0 playerId == Uuid(uuid + 1) room == Joined(rooms[rid], w, playerIndex, playerId, playerName) IN /\ rooms' = [rooms EXCEPT ![rid] = room] /\ uuid' = uuid + 1 /\ UNCHANGED <<games, sock, timers>> /\ Served("JOIN_GAME", w, rid, a, TRUE, rooms[rid], broadcastToOthers(room, playerId, [type |-> "PLAYER_JOINED", playerIndex |-> playerIndex, playerName |-> playerName]) \o Reply(w, [type |-> "GAME_JOINED", gameId |-> room.state.id, playerIndex |-> playerIndex, gameState |-> sanitizeStateForPlayer(room.state, playerIndex)]))

\* the codes a client types: the live codes in lower case, and one no room has
ToLowerCase(s) == CASE s = "ABC123" -> "abc123" [] s = "Abc123" -> "abc123" [] s = "XYZ789" -> "xyz789" [] OTHER -> s

TypedNow == {ToLowerCase(games[g].gameId) : g \in 1..Len(games)} \cup {"QQQ222"}

JoinGame == steps > 0 /\ \E w \in Sockets, gameId \in TypedNow, password \in Passwords : IsOpen(w) /\ (gameId = "QQQ222" => password = "pw1") /\ joinGame(w, gameId, NameOf(w), password)

\* a lookup that seats every player id at seat 0
SeatAlwaysZero(state, playerId) == 0

\* room.state.players.findIndex(p => p?.id === playerId), -1 when absent
SeatOf(state, playerId) == IF state.players[1] # Null /\ state.players[1].id = playerId THEN 0 ELSE IF state.players[2] # Null /\ state.players[2].id = playerId THEN 1 ELSE -1

reconnect(w, gameId, playerId) == LET rid == GamesGet(ToUpperCase(gameId)) a == [type |-> "RECONNECT", gameId |-> gameId, playerId |-> playerId] IN IF rid = 0 THEN UNCHANGED <<games, rooms, sock, timers, uuid>> /\ Served("RECONNECT", w, 0, a, FALSE, NoRoom, Reply(w, ErrorMsg("GAME_NOT_FOUND"))) ELSE IF SeatOf(rooms[rid].state, playerId) = -1 THEN UNCHANGED <<games, rooms, sock, timers, uuid>> /\ Served("RECONNECT", w, rid, a, FALSE, rooms[rid], Reply(w, ErrorMsg("PLAYER_NOT_FOUND"))) ELSE LET playerIndex == SeatOf(rooms[rid].state, playerId) room == [rooms[rid] EXCEPT !.players = SetConn(rooms[rid].players, playerId, w, playerIndex)] IN /\ rooms' = [rooms EXCEPT ![rid] = room] /\ UNCHANGED <<games, sock, timers, uuid>> /\ Served("RECONNECT", w, rid, a, TRUE, rooms[rid], broadcastToOthers(room, playerId, [type |-> "PLAYER_RECONNECTED", playerIndex |-> playerIndex]) \o Reply(w, [type |-> "RECONNECTED", gameId |-> room.state.id, playerIndex |-> playerIndex, gameState |-> sanitizeStateForPlayer(room.state, playerIndex)]))

\* the player ids a client can hold: those handed out so far, and one never handed out
KnownPlayerIds == {Uuid(n) : n \in 1..Min(uuid, 2)} \cup {GhostId}

Reconnect == steps > 0 /\ \E w \in Sockets, gameId \in TypedNow, playerId \in KnownPlayerIds : IsOpen(w) /\ (gameId = "QQQ222" => playerId = Uuid(1)) /\ reconnect(w, gameId, playerId)

\* the transport closes a socket; its close event is still to be handled
SocketClose == steps > 0 /\ \E w \in Sockets : IsOpen(w) /\ sock' = [sock EXCEPT ![w] = "CLOSED"] /\ UNCHANGED <<games, rooms, timers, uuid>> /\ Served("close", w, 0, [type |-> "close"], TRUE, NoRoom, <<>>)

\* the first (game, connection) of the registry that holds the socket
Holder(w) == LET g == CHOOSE i \in 1..Len(games) : HasSocket(rooms[games[i].room], w) /\ \A j \in 1..(i - 1) : ~HasSocket(rooms[games[j].room], w) IN [gameId |-> games[g].gameId, room |-> games[g].room, conn |-> FirstConn(rooms[games[g].room], w)]

handleDisconnect(w) == IF getPlayerBySocket(w).room = 0 THEN UNCHANGED <<games, rooms, timers, uuid>> /\ Served("disconnect", w, 0, [type |-> "disconnect"], FALSE, NoRoom, <<>>) ELSE LET h == Holder(w) room == [rooms[h.room] EXCEPT !.players = RemoveAt(rooms[h.room].players, ConnIndex(rooms[h.room].players, h.conn.playerId))] IN /\ rooms' = [rooms EXCEPT ![h.room] = room] /\ timers' = (IF Len(room.players) = 0 THEN Append(timers, [gameId |-> h.gameId, room |-> h.room]) ELSE timers) /\ UNCHANGED <<games, uuid>> /\ Served("disconnect", w, h.room, [type |-> "disconnect"], TRUE, rooms[h.room], broadcastToRoom(room, [type |-> "PLAYER_LEFT", playerIndex |-> h.conn.playerIndex]))

\* ws.on('close'): the handler runs once per closed socket
Disconnect == steps > 0 /\ \E w \in Sockets : sock[w] = "CLOSED" /\ sock' = [sock EXCEPT ![w] = "DONE"] /\ handleDisconnect(w)

\* the setTimeout callback: if (room.players.size === 0) this.games.delete(gameId).
\* All timers have the same delay, so they fire in the order they were set; a
\* pending callback runs whatever else the server still has to handle.
ReapTimer == /\ Len(timers) > 0 /\ timers' = Tail(timers) /\ games' = (IF Len(rooms[timers[1].room].players) = 0 THEN SelectSeq(games, LAMBDA g : g.gameId # timers[1].gameId) ELSE games) /\ outbox' = <<>> /\ last' = [op |-> "timer", ws |-> "", room |-> timers[1].room, action |-> [type |-> "timer", gameId |-> timers[1].gameId], ok |-> Len(rooms[timers[1].room].players) = 0, before |-> rooms[timers[1].room]] /\ trail' = <<>> /\ UNCHANGED <<rooms, sock, uuid, steps, sanIn, sanOut, codes>>

\* mainDeck.map / sideboard.map of submitDeck: the k-th entry gets the k-th fresh id
FreshCards(entries, base) == [k \in 1..Len(entries) |-> NewCard(entries[k], Uuid(base + k))]

DeckLists == {[mainDeck |-> <<Forest, Delver>>, sideboard |-> <<Forest>>], [mainDeck |-> <<Delver>>, sideboard |-> <<>>]}

submitDeck(w, d) == LET info == getPlayerBySocket(w) a == [type |-> "SUBMIT_DECK", mainDeck |-> d.mainDeck, sideboard |-> d.sideboard] IN IF info.room = 0 THEN UNCHANGED <<games, rooms, sock, timers, uuid>> /\ Served("SUBMIT_DECK", w, 0, a, FALSE, NoRoom, Reply(w, ErrorMsg("NOT_IN_GAME"))) ELSE IF PlayerAt(rooms[info.room].state, info.playerIndex) = Null THEN UNCHANGED <<games, rooms, sock, timers, uuid>> /\ Served("SUBMIT_DECK", w, info.room, a, FALSE, rooms[info.room], Reply(w, ErrorMsg("INVALID_STATE"))) ELSE LET player == PlayerAt(rooms[info.room].state, info.playerIndex) room == [rooms[info.room] EXCEPT !.state = SetPlayer(rooms[info.room].state, info.playerIndex, [player EXCEPT !.deck = FreshCards(d.mainDeck, uuid), !.sideboard = FreshCards(d.sideboard, uuid + Len(d.mainDeck))])] IN /\ rooms' = [rooms EXCEPT ![info.room] = room] /\ uuid' = uuid + Len(d.mainDeck) + Len(d.sideboard) /\ UNCHANGED <<games, sock, timers>> /\ Served("SUBMIT_DECK", w, info.room, a, TRUE, rooms[info.room], broadcastStateUpdate(room) \o Reply(w, [type |-> "DECK_SUBMITTED", success |-> TRUE]))

SubmitDeck == steps > 0 /\ \E w \in Sockets, d \in DeckLists : IsOpen(w) /\ (d.mainDeck = <<Delver>> <=> w # "w1") /\ submitDeck(w, d)

\* the checks of startGame without the host check
StartVerdictAnySeat(info) == IF info.room = 0 THEN "NOT_IN_GAME" ELSE LET state == rooms[info.room].state IN IF state.players[1] = Null \/ state.players[2] = Null THEN "WAITING_FOR_PLAYER" ELSE IF Len(state.players[1].deck) = 0 \/ Len(state.players[2].deck) = 0 THEN "DECK_NOT_SUBMITTED" ELSE "OK"

\* the checks of startGame: the error code, "OK" when the game starts
StartVerdict(info) == IF info.room = 0 THEN "NOT_IN_GAME" ELSE IF info.playerIndex # 0 THEN "NOT_HOST" ELSE LET state == rooms[info.room].state IN IF state.isGoldfishMode THEN (IF state.players[1] = Null THEN "INVALID_STATE" ELSE IF Len(state.players[1].deck) = 0 THEN "DECK_NOT_SUBMITTED" ELSE "OK") ELSE IF state.players[1] = Null \/ state.players[2] = Null THEN "WAITING_FOR_PLAYER" ELSE IF Len(state.players[1].deck) = 0 \/ Len(state.players[2].deck) = 0 THEN "DECK_NOT_SUBMITTED" ELSE "OK"

\* shuffle both decks, deal the opening hands, enter the mulligan phase
Started(state) == {[state EXCEPT !.players = <<DealHand([state.players[1] EXCEPT !.deck = d0]), (IF state.players[2] = Null THEN Null ELSE DealHand([state.players[2] EXCEPT !.deck = d1]))>>, !.phase = "mulligan", !.turn = [number |-> 0, activePlayer |-> 0, phase |-> "pre-game"]] : d0 \in Perms(state.players[1].deck), d1 \in (IF state.players[2] = Null THEN {<<>>} ELSE Perms(state.players[2].deck))}

startGame(w) == LET info == getPlayerBySocket(w) verdict == StartVerdict(info) a == [type |-> "START_GAME"] IN IF verdict # "OK" THEN UNCHANGED <<games, rooms, sock, timers, uuid>> /\ Served("START_GAME", w, info.room, a, FALSE, (IF info.room = 0 THEN NoRoom ELSE rooms[info.room]), Reply(w, ErrorMsg(verdict))) ELSE \E state \in Started(rooms[info.room].state) : LET room == [rooms[info.room] EXCEPT !.state = state] IN /\ rooms' = [rooms EXCEPT ![info.room] = room] /\ UNCHANGED <<games, sock, timers, uuid>> /\ Served("START_GAME", w, info.room, a, TRUE, rooms[info.room], broadcastStateUpdate(room) \o Reply(w, [type |-> "GAME_STARTED", success |-> TRUE]))

StartGame == steps > 0 /\ \E w \in Sockets : IsOpen(w) /\ startGame(w)

---------------------------------------------------------------------------
(* Spec: the server from its empty registry *)

Init == /\ games = <<>> /\ rooms = <<>> /\ sock = ThreeClients /\ timers = <<>> /\ outbox = <<>> /\ uuid = 0 /\ steps = MaxSteps /\ last = NoLast /\ trail = <<>> /\ sanIn = NoRoom /\ sanOut = NoRoom /\ codes = {}

Next == CreateGame \/ JoinGame \/ Reconnect \/ SocketClose \/ Disconnect \/ ReapTimer \/ SubmitDeck \/ StartGame \/ PassTurn \/ Concede

Spec == Init /\ [][Next]_vars

---------------------------------------------------------------------------
(* Properties of the registry and of sending, checked under Spec *)

StateBearing == {"STATE_UPDATE", "GAME_JOINED", "RECONNECTED"}

Carried(i) == outbox[i].body.gameState

\* the connection entries of the room of the last request that message i can be for
ConnsFor(i) == {k \in 1..Len(rooms[last.room].players) : rooms[last.room].players[k].ws = outbox[i].to}

SeatView(k) == sanitizeStateForPlayer(rooms[last.room].state, rooms[last.room].players[k].playerIndex)

StateUpdates == {i \in 1..Len(outbox) : outbox[i].type = "STATE_UPDATE"}

\* C9: every STATE_UPDATE, GAME_JOINED and RECONNECTED sent carries the view of the
\* room's state sanitized for the seat of a connection of its recipient; no message
\* goes to a socket that is not open; a broadcast reaches every open connection of
\* the room, once per broadcast; and a reconnect, which computes a view, leaves the
\* game state as it was.
C9_ViewsPerRecipient ==
  /\ \A i \in 1..Len(outbox) : IsOpen(outbox[i].to)
  /\ \A i \in 1..Len(outbox) : (outbox[i].type \in StateBearing => (last.room # 0 /\ \E k \in ConnsFor(i) : Carried(i) = SeatView(k)))
  /\ StateUpdates # {} =>
       /\ \A k \in 1..Len(rooms[last.room].players) : (IsOpen(rooms[last.room].players[k].ws) => \E i \in StateUpdates : outbox[i].to = rooms[last.room].players[k].ws /\ Carried(i) = SeatView(k))
       /\ Cardinality(StateUpdates) \in {Len(OpenConns(rooms[last.room])), 2 * Len(OpenConns(rooms[last.room]))}
  /\ (last.op = "RECONNECT" /\ last.ok) => rooms[last.room].state = last.before.state

\* a broadcast that skipped a closed connection and reached the open one
C9_Witness == last.room # 0 /\ Len(rooms[last.room].players) = 2 /\ Len(OpenConns(rooms[last.room])) = 1 /\ Cardinality(StateUpdates) = 1 /\ Len(AllCards(rooms[last.room].state)) > 0

\* the live rooms whose code is the typed one up to letter case
LiveMatches(typed) == {games[g].room : g \in {h \in 1..Len(games) : ToLowerCase(games[h].gameId) = ToLowerCase(typed)}}

BothSeated(state) == state.players[1] # Null /\ state.players[2] # Null

JoinExpected(typed, password) == IF LiveMatches(typed) = {} THEN "GAME_NOT_FOUND" ELSE IF last.before.state.passwordHash # hashPassword(password) THEN "INVALID_PASSWORD" ELSE IF BothSeated(last.before.state) THEN "GAME_FULL" ELSE "OK"

\* C10: JOIN_GAME answers GAME_NOT_FOUND when no live room has the code (letter case
\* aside), INVALID_PASSWORD when the room exists and the password differs, full or
\* not, GAME_FULL when the password matches and both seats are filled; in these three
\* cases the room (seats and connection entries) is as it was and the only message
\* sent is the error, so no PLAYER_JOINED.
C10_JoinRejections ==
  last.op = "JOIN_GAME" =>
    LET expected == JoinExpected(last.action.gameId, last.action.password) IN
      /\ LiveMatches(last.action.gameId) # {} => last.room \in LiveMatches(last.action.gameId)
      /\ expected = "OK" <=> last.ok
      /\ expected # "OK" =>
           /\ outbox = <<[to |-> last.ws, body |-> [type |-> "ERROR", code |-> expected], type |-> "ERROR"]>>
           /\ last.room # 0 => rooms[last.room] = last.before

\* a wrong password on a full room, the code typed in lower case
C10_Witness == last.op = "JOIN_GAME" /\ last.room # 0 /\ last.action.gameId = "abc123" /\ BothSeated(last.before.state) /\ last.before.state.passwordHash # hashPassword(last.action.password) /\ outbox[1].body.code = "INVALID_PASSWORD"

---------------------------------------------------------------------------
(* SpecSanitize: sanitizeStateForPlayer applied to a state and to a twin of it.   *)
(* The states are those of SpecGame and the ones a further move of Ann's Forest   *)
(* to her library leads to; the twin is the state the same play leads to when the *)
(* opponent of the viewer has submitted other catalog entries for the cards now   *)
(* in the hidden zones, with the library in another order.                        *)

SanStates == GameStates \cup After(GameStates, 0, [type |-> "MOVE_CARD", instanceId |-> Uuid(3), from |-> "hand", to |-> "deck", position |-> NoPos, faceDown |-> FALSE])

\* the card instance with another catalog entry behind it
Recatalog(card, entry) == [card EXCEPT !.scryfallId = entry.scryfallId, !.name = entry.name, !.imageUri = entry.imageUri, !.backImageUri = entry.backImageUri]

TwinsWith(state, seat, e) == {SetPlayer(state, seat, [PlayerAt(state, seat) EXCEPT !.hand = [i \in 1..Len(PlayerAt(state, seat).hand) |-> Recatalog(PlayerAt(state, seat).hand[i], e)], !.deck = d]) : d \in Perms([i \in 1..Len(PlayerAt(state, seat).deck) |-> Recatalog(PlayerAt(state, seat).deck[i], e)])}

Twins(state, seat) == UNION {TwinsWith(state, seat, e) : e \in Catalog}

SanInputs == UNION {{[state |-> s, twin |-> t, viewer |-> v] : t \in Twins(s, Other(v))} : s \in SanStates, v \in {0, 1}}

InitSanitize == /\ sanIn \in SanInputs /\ sanOut = NoRoom /\ games = <<>> /\ rooms = <<>> /\ sock = ThreeClients /\ timers = <<>> /\ outbox = <<>> /\ uuid = 6 /\ steps = 1 /\ last = NoLast /\ trail = <<>> /\ codes = {}

Sanitize == /\ sanOut = NoRoom /\ sanOut' = [view |-> sanitizeStateForPlayer(sanIn.state, sanIn.viewer), twinView |-> sanitizeStateForPlayer(sanIn.twin, sanIn.viewer)] /\ UNCHANGED <<games, rooms, sock, timers, outbox, uuid, steps, last, trail, sanIn, codes>>

SpecSanitize == InitSanitize /\ [][Sanitize]_vars

PublicZones == {"battlefield", "graveyard", "exileActive", "exilePermanent"}

RealIds(state) == {AllCards(state)[i].instanceId : i \in 1..Len(AllCards(state))}

CatalogWords == UNION {{c.scryfallId, c.name, c.imageUri, c.backImageUri} : c \in Catalog} \ {"none"}

\* C7: the view of viewer v equals the raw state on the stack, on the battlefield,
\* graveyard and both exile zones of both players, and on v's own hand and library;
\* the other seat's hand keeps its length and its instance ids in order with every
\* name replaced; the other seat's library keeps its length and holds placeholders
\* with no instance id and no catalog identity of a real card.
C7_SanitizedView ==
  sanOut # NoRoom =>
    LET s == sanIn.state
        v == sanIn.viewer
        view == sanOut.view
        opp == PlayerAt(s, Other(v))
        seen == PlayerAt(view, Other(v))
    IN /\ view.stack = s.stack
       /\ \A p \in {0, 1}, z \in PublicZones : PlayerAt(view, p)[z] = PlayerAt(s, p)[z]
       /\ PlayerAt(view, v).hand = PlayerAt(s, v).hand
       /\ PlayerAt(view, v).deck = PlayerAt(s, v).deck
       /\ Len(seen.hand) = Len(opp.hand)
       /\ \A i \in 1..Len(opp.hand) : seen.hand[i].instanceId = opp.hand[i].instanceId /\ seen.hand[i].name = "Hidden"
       /\ Len(seen.deck) = Len(opp.deck)
       /\ \A i \in 1..Len(seen.deck) : seen.deck[i].instanceId \notin RealIds(s) /\ {seen.deck[i].scryfallId, seen.deck[i].name, seen.deck[i].imageUri, seen.deck[i].backImageUri} \cap CatalogWords = {}

C7_Witness == sanOut # NoRoom /\ Len(PlayerAt(sanIn.state, Other(sanIn.viewer)).hand) >= 1 /\ Len(PlayerAt(sanIn.state, Other(sanIn.viewer)).deck) >= 1 /\ Len(PlayerAt(sanIn.state, sanIn.viewer).battlefield) >= 1 /\ sanOut.view # sanIn.state

\* C8: two states that differ only in the catalog identity of the cards in the other
\* seat's hand and library, and in the order of that library, have the same view.
C8_HiddenIdentityDoesNotLeak == sanOut # NoRoom => sanOut.view = sanOut.twinView

---------------------------------------------------------------------------
(* Reconnection (Spec) *)

Seated(state, playerId) == {i \in 1..2 : state.players[i] # Null /\ state.players[i].id = playerId}

SameGame(r1, r2) == r1.state = r2.state /\ r1.stateHistory = r2.stateHistory /\ r1.historyIndex = r2.historyIndex

OtherConns(players, playerId) == SelectSeq(players, LAMBDA c : c.playerId # playerId)

ReconnectStep == last'.op = "RECONNECT" /\ steps' = steps - 1

\* C11: RECONNECT(gameId, playerId) answers GAME_NOT_FOUND when no room has the
\* code and PLAYER_NOT_FOUND when no seated player of the room has the id;
\* otherwise the connection entry of that player id is bound to the requesting
\* socket with the seat where the player sits, and the requester gets
\* RECONNECTED. In all three cases every room keeps its game state and history.
C11_Reconnect ==
  [][ReconnectStep =>
      LET rid == GamesGet(ToUpperCase(last'.action.gameId))
          pid == last'.action.playerId
          w   == last'.ws
      IN /\ games' = games /\ Len(rooms') = Len(rooms) /\ timers' = timers
         /\ \A r \in 1..Len(rooms) : SameGame(rooms'[r], rooms[r]) /\ (r # rid => rooms'[r] = rooms[r])
         /\ rid = 0 => rooms' = rooms /\ outbox' = Reply(w, ErrorMsg("GAME_NOT_FOUND"))
         /\ (rid # 0 /\ Seated(rooms[rid].state, pid) = {}) => rooms' = rooms /\ outbox' = Reply(w, ErrorMsg("PLAYER_NOT_FOUND"))
         /\ (rid # 0 /\ Seated(rooms[rid].state, pid) # {}) =>
              /\ \E i \in 1..Len(rooms'[rid].players) : rooms'[rid].players[i] = [playerId |-> pid, ws |-> w, playerIndex |-> (CHOOSE k \in Seated(rooms[rid].state, pid) : TRUE) - 1]
              /\ OtherConns(rooms'[rid].players, pid) = OtherConns(rooms[rid].players, pid)
              /\ Len(rooms'[rid].players) = Len(OtherConns(rooms[rid].players, pid)) + 1
              /\ outbox'[Len(outbox')].to = w /\ outbox'[Len(outbox')].type = "RECONNECTED"
  ]_vars

\* a player seated at seat 1 rebinds to a new socket in a room that has a history
C11_Witness == last.op = "RECONNECT" /\ last.ok /\ last.room # 0 /\ Len(rooms[last.room].stateHistory) > 0 /\ (\E i \in 1..Len(last.before.players) : last.before.players[i].playerId = last.action.playerId /\ last.before.players[i].ws # last.ws)

---------------------------------------------------------------------------
(* SpecReap: one room created by w1, then connections that come and go *)

InitReap == /\ games = <<[gameId |-> "ABC123", room |-> 1]>> /\ rooms = <<[NewRoom(SetPlayer(createGameState("ABC123", hashPassword("pw1")), 0, createPlayer(Uuid(1), "Ann"))) EXCEPT !.players = OneSeat]>> /\ sock = [w \in Sockets |-> "OPEN"] /\ timers = <<>> /\ outbox = <<>> /\ uuid = 1 /\ steps = MaxReapSteps /\ last = NoLast /\ trail = <<>> /\ sanIn = NoRoom /\ sanOut = NoRoom /\ codes = {}

\* a client comes back on a new socket with the (gameId, playerId) it stored
Return == steps > 0 /\ \E w \in Sockets, g \in 1..Len(games), i \in 1..2 : IsOpen(w) /\ rooms[games[g].room].state.players[i] # Null /\ reconnect(w, games[g].gameId, rooms[games[g].room].state.players[i].id)

NextReap == CreateGame \/ Return \/ SocketClose \/ Disconnect \/ ReapTimer

SpecReap == InitReap /\ [][NextReap]_vars

\* Node runs every pending setTimeout callback
SpecReapLive == SpecReap /\ WF_vars(ReapTimer)

PendingFor(rid) == \E i \in 1..Len(timers) : timers[i].room = rid

\* C12: a timer removes a room only if it is the timer set by the disconnect
\* that last emptied the room, i.e. the room stayed empty for a whole grace
\* period: when a timer deletes, no later timer of the same room is pending.
C12_ReapOnlyAfterFullGrace == (last.op = "timer" /\ last.ok) => ~PendingFor(last.room)

Registered(rid) == \E g \in 1..Len(games) : games[g].room = rid

\* under SpecReapLive every room that is registered and empty is later removed
\* or connected again (the first half of C13)
EmptyRoomEventuallyReaped == \A rid \in 1..3 : (rid <= Len(rooms) /\ Registered(rid) /\ Len(rooms[rid].players) = 0) ~> (~Registered(rid) \/ Len(rooms[rid].players) > 0)

\* C13: a room that was emptied, whose player reconnected before the room's
\* timer fired and who stays connected, remains resolvable by its code: no
\* step removes the registry entry of a room that has a connection while its
\* own timer is pending.
C13_ConnectedRoomStaysResolvable == [][\A g \in 1..Len(games) : (PendingFor(games[g].room) /\ Len(rooms[games[g].room].players) > 0 /\ Len(rooms'[games[g].room].players) > 0) => (\E h \in 1..Len(games') : games'[h] = games[g])]_vars

\* C14: a registry entry disappears only through a timer of that very room,
\* and only when that room has no connection; creating a room keeps every
\* existing entry.
C14_RoomsAreIndependent == [][\A g \in 1..Len(games) : (\A h \in 1..Len(games') : games'[h] # games[g]) => (last'.op = "timer" /\ last'.room = games[g].room /\ Len(rooms[games[g].room].players) = 0)]_vars

---------------------------------------------------------------------------
(* Requests answered with ERROR (SpecGame) *)

AnsweredError == Len(outbox) > 0 /\ outbox[Len(outbox)].to = last.ws /\ outbox[Len(outbox)].type = "ERROR"

\* C15: a request answered with ERROR leaves its room exactly as it was before
\* the request: game state, connection table, and history contents and cursor.
C15_ErrorLeavesRoomUnchanged == (AnsweredError /\ last.room # 0) => rooms[last.room] = last.before

---------------------------------------------------------------------------
(* SpecMatch: the course of a match, from lobbies with decks submitted and *)
(* from a game in progress                                                 *)

AnnDeck == FreshCards(<<Forest, Delver, Forest, Delver, Forest, Delver, Forest, Delver>>, 2)

\* seat 0 alone with a deck; both seated, seat 1 without a deck; both with decks
LobbyAlone == [createGameState("ABC123", hashPassword("pw1")) EXCEPT !.players = <<[createPlayer(Uuid(1), "Ann") EXCEPT !.deck = AnnDeck, !.sideboard = FreshCards(<<Forest>>, 10)], Null>>]

LobbyNoDeck == [LobbyAlone EXCEPT !.players[2] = createPlayer(Uuid(2), "Bob")]

LobbyReady == [LobbyAlone EXCEPT !.players[2] = [createPlayer(Uuid(2), "Bob") EXCEPT !.deck = FreshCards(<<Delver, Forest>>, 11)]]

\* a game in progress: both kept, seat 0 has a tapped card and a token on its
\* battlefield, seat 1 a card in its graveyard
WithToken(state) == [state EXCEPT !.players[1].battlefield = Append(state.players[1].battlefield, [(CHOOSE t \in TokenPayloads : t.zIndex = <<>>) EXCEPT !.instanceId = Uuid(14)])]

InProgress == {WithToken(s) : s \in After(After(After(After(After(Started(LobbyReady), 0, [type |-> "MULLIGAN_KEEP"]), 1, [type |-> "MULLIGAN_KEEP"]), 0, [type |-> "MOVE_CARD", instanceId |-> Uuid(3), from |-> "hand", to |-> "battlefield", position |-> [x |-> 50, y |-> 50], faceDown |-> TRUE]), 0, [type |-> "TAP_CARD", instanceId |-> Uuid(3)]), 1, [type |-> "MOVE_CARD", instanceId |-> Uuid(12), from |-> "hand", to |-> "graveyard", position |-> NoPos, faceDown |-> FALSE])}

MatchStates == {LobbyAlone, LobbyNoDeck, LobbyReady} \cup InProgress

InitMatch == /\ games = <<[gameId |-> "ABC123", room |-> 1]>> /\ \E s \in MatchStates : rooms = <<[NewRoom(s) EXCEPT !.players = (IF s.players[2] = Null THEN OneSeat ELSE TwoSeats)]>> /\ sock = ThreeClients /\ timers = <<>> /\ outbox = <<>> /\ uuid = 14 /\ steps = MaxMatchSteps /\ last = NoLast /\ trail = <<>> /\ sanIn = NoRoom /\ sanOut = NoRoom /\ codes = {}

NextMatch == StartGame \/ EnableGoldfish \/ MulliganKeep \/ Concede \/ DeclareWinner \/ ReadyForNextGame

SpecMatch == InitMatch /\ [][NextMatch]_vars

Rank(phase) == CASE phase = "lobby" -> 0 [] phase = "mulligan" -> 1 [] phase = "playing" -> 2 [] phase = "sideboarding" -> 3 [] phase = "finished" -> 4

RoomRequest == last.op \in {"GAME_ACTION", "START_GAME"} /\ last.room # 0

\* C16: apart from UNDO and REDO, no request moves a room's phase backward in
\* the order lobby, mulligan, playing, sideboarding, finished, except the step
\* from sideboarding to mulligan that starts the next game.
C16_PhaseNeverMovesBack == (RoomRequest /\ last.action.type \notin {"UNDO", "REDO"}) => (Rank(rooms[last.room].state.phase) >= Rank(last.before.state.phase) \/ (last.before.state.phase = "sideboarding" /\ rooms[last.room].state.phase = "mulligan"))

---------------------------------------------------------------------------
(* START_GAME (SpecMatch) *)

\* the seat the connection table of a room gives a socket, -1 when it has none
SeatOfSocket(room, w) == IF \E i \in 1..Len(room.players) : room.players[i].ws = w THEN (CHOOSE c \in Range(room.players) : c.ws = w).playerIndex ELSE -1

ReplyCode == IF AnsweredError THEN outbox[Len(outbox)].body.code ELSE "none"

InstancesOf(cards) == {cards[i].instanceId : i \in 1..Len(cards)}

\* the player was dealt an opening hand from a deck of n cards and an empty hand
Dealt(before, after) == /\ Len(after.hand) = Min(7, Len(before.deck)) /\ Len(after.deck) = Len(before.deck) - Min(7, Len(before.deck)) /\ InstancesOf(after.hand) \cup InstancesOf(after.deck) = InstancesOf(before.deck) /\ Cardinality(InstancesOf(before.deck)) = Len(before.deck)

StartAccepted == last.op = "START_GAME" /\ last.ok

\* C17: START_GAME is refused with NOT_HOST from seat 1, with
\* WAITING_FOR_PLAYER when seat 1 is empty outside solo mode, with
\* DECK_NOT_SUBMITTED when a required deck is empty; accepted in a lobby where
\* every seated player has a deck of n cards and an empty hand, it leaves each
\* with a hand of min(7, n) and a library of n - min(7, n) cards made of the
\* same instances, in phase mulligan with turn number 0.
C17_StartGame ==
  (last.op = "START_GAME" /\ last.room # 0) =>
    LET b == last.before.state
        a == rooms[last.room].state
        seat == SeatOfSocket(last.before, last.ws)
        needed == IF b.isGoldfishMode THEN {1} ELSE {1, 2}
    IN /\ seat = 1 => ReplyCode = "NOT_HOST"
       /\ (seat = 0 /\ ~b.isGoldfishMode /\ b.players[2] = Null) => ReplyCode = "WAITING_FOR_PLAYER"
       /\ (seat = 0 /\ (\A i \in needed : b.players[i] # Null) /\ (\E i \in needed : Len(b.players[i].deck) = 0)) => ReplyCode = "DECK_NOT_SUBMITTED"
       /\ (seat = 0 /\ \A i \in needed : b.players[i] # Null /\ Len(b.players[i].deck) > 0) => last.ok
       /\ ~last.ok => a = b /\ AnsweredError
       /\ (last.ok /\ b.phase = "lobby" /\ \A i \in 1..2 : b.players[i] # Null /\ b.players[i].hand = <<>>) =>
            /\ a.phase = "mulligan" /\ a.turn.number = 0
            /\ \A i \in 1..2 : Dealt(b.players[i], a.players[i])

\* a two-player lobby with a deck of more than 7 cards was started
C17_Witness == StartAccepted /\ last.before.state.phase = "lobby" /\ Len(last.before.state.players[1].deck) > 7 /\ Len(rooms[last.room].state.players[1].hand) = 7 /\ Len(rooms[last.room].state.players[1].deck) > 0 /\ ~last.before.state.isGoldfishMode

---------------------------------------------------------------------------
(* MULLIGAN_KEEP (SpecMatch) *)

KeepInMulligan == last.op = "GAME_ACTION" /\ last.room # 0 /\ last.action.type = "MULLIGAN_KEEP" /\ last.ok /\ last.before.state.phase = "mulligan"

\* C18: in the mulligan phase MULLIGAN_KEEP sets the sender's hasKeptHand; the
\* phase becomes playing, with turn number 1 and active seat 0, exactly when
\* the other seat had already kept (in solo mode as soon as seat 0 keeps);
\* otherwise the phase stays mulligan.
C18_MulliganKeep ==
  KeepInMulligan =>
    LET b == last.before.state
        a == rooms[last.room].state
        seat == SeatOfSocket(last.before, last.ws)
        starts == (b.isGoldfishMode /\ seat = 0) \/ (b.players[2 - seat] # Null /\ b.players[2 - seat].hasKeptHand)
    IN /\ a.players[seat + 1].hasKeptHand
       /\ starts => a.phase = "playing" /\ a.turn.number = 1 /\ a.turn.activePlayer = 0
       /\ ~starts => a.phase = "mulligan" /\ a.turn = b.turn
       /\ a.players[2 - seat] = b.players[2 - seat]

\* the second of two real players keeps and play starts
C18_Witness == KeepInMulligan /\ ~last.before.state.isGoldfishMode /\ rooms[last.room].state.phase = "playing" /\ ~last.before.state.players[SeatOfSocket(last.before, last.ws) + 1].hasKeptHand

---------------------------------------------------------------------------
(* CONCEDE and DECLARE_WINNER (SpecMatch) *)

GameEnded == last.op = "GAME_ACTION" /\ last.room # 0 /\ last.action.type \in {"CONCEDE", "DECLARE_WINNER"} /\ last.ok

Count(results, r) == Cardinality({i \in 1..Len(results) : results[i] = r})

---------------------------------------------------------------------------
(* READY_FOR_NEXT_GAME (SpecMatch) *)

ReadySent == last.op = "GAME_ACTION" /\ last.room # 0 /\ last.action.type = "READY_FOR_NEXT_GAME" /\ last.ok

NonTokens(player) == {c.instanceId : c \in {x \in Range(player.deck) \cup Range(player.hand) \cup Range(player.battlefield) \cup Range(player.graveyard) \cup Range(player.exileActive) \cup Range(player.exilePermanent) : x.isToken = "absent"}}

Cleared(card) == ~card.isTapped /\ ~card.isFaceDown /\ ~card.isTransformed /\ card.counters = <<>> /\ card.attachedTo = NoId /\ card.attachments = <<>> /\ card.position = NoPos /\ card.isToken = "absent"

\* the player as the next game's setup leaves it
SetUp(before, after) ==
  /\ after.battlefield = <<>> /\ after.graveyard = <<>> /\ after.exileActive = <<>> /\ after.exilePermanent = <<>>
  /\ InstancesOf(after.deck) \cup InstancesOf(after.hand) = NonTokens(before)
  /\ Len(after.deck) + Len(after.hand) = Cardinality(NonTokens(before))
  /\ Len(after.hand) = Min(7, Cardinality(NonTokens(before)))
  /\ \A c \in Range(after.deck) \cup Range(after.hand) : Cleared(c)
  /\ after.life = <<[delta |-> 0, total |-> 20]>> /\ after.counters = [poison |-> 0, energy |-> 0, experience |-> 0]
  /\ after.mulliganCount = 0 /\ after.sideboard = before.sideboard

\* C20: the next game is set up only once both players have sent
\* READY_FOR_NEXT_GAME (in solo mode as soon as seat 0 has). The setup empties
\* battlefield, graveyard and both exile zones, discards tokens, puts exactly
\* the player's non-token instances into deck and hand with a hand of
\* min(7, pool), clears the per-game state of the cards and of the players
\* (hasKeptHand false for real players) and enters mulligan with turn number 0.
C20_NextGameSetup ==
  ReadySent =>
    LET b == last.before.state
        a == rooms[last.room].state
        seat == SeatOfSocket(last.before, last.ws)
        bothIn == b.players[1] # Null /\ b.players[2] # Null
        bothReady == bothIn /\ (b.isGoldfishMode \/ b.players[2 - seat].readyForNextGame)
    IN /\ ~bothReady => a = [b EXCEPT !.players[seat + 1].readyForNextGame = TRUE]
       /\ bothReady =>
            /\ a.phase = "mulligan" /\ a.turn.number = 0
            /\ \A i \in 1..2 : SetUp(b.players[i], a.players[i])
            /\ \A i \in 1..2 : (i = 1 \/ ~b.isGoldfishMode) => ~a.players[i].hasKeptHand /\ ~a.players[i].readyForNextGame

\* the second READY_FOR_NEXT_GAME arrives with a token and a tapped, placed card
\* on the battlefield and a card in a graveyard
C20_Witness == ReadySent /\ rooms[last.room].state.phase = "mulligan" /\ last.before.state.phase = "sideboarding" /\ ~last.before.state.isGoldfishMode /\ (\E c \in Range(last.before.state.players[1].battlefield) : c.isToken = "true") /\ (\E c \in Range(last.before.state.players[1].battlefield) : c.isTapped /\ c.position # NoPos) /\ last.before.state.players[2].graveyard # <<>>

---------------------------------------------------------------------------
(* SpecSave: SAVE_GAME and LOAD_GAME in two rooms.  Room "ABC123" holds the    *)
(* started match of SpecGame after Ann has put her Delver on the stack and Bob *)
(* has played his, with the two snapshots those moves left in its history;     *)
(* Bob's socket has closed since and Ann has just been sent a save code.  Room *)
(* "XYZ789" is a lobby a third client has created with another password.       *)

Played0 == After(StartedState, 0, [type |-> "MOVE_CARD", instanceId |-> Uuid(4), from |-> "hand", to |-> "stack", position |-> NoPos, faceDown |-> FALSE])

Played1 == After(Played0, 1, [type |-> "MOVE_CARD", instanceId |-> Uuid(6), from |-> "hand", to |-> "battlefield", position |-> [x |-> 50, y |-> 50], faceDown |-> FALSE])

\* the room after two requests: each saved the state it found, then changed it
PlayedRoom == {[saveStateSnapshot([saveStateSnapshot([NewRoom(s0) EXCEPT !.players = OneSeat]) EXCEPT !.state = s1]) EXCEPT !.state = s2] : s0 \in StartedState, s1 \in Played0, s2 \in Played1}

LobbyRoom == [NewRoom(SetPlayer(createGameState("XYZ789", hashPassword("pw2")), 0, createPlayer(Uuid(7), "Cat"))) EXCEPT !.players = <<[playerId |-> Uuid(7), ws |-> "w3", playerIndex |-> 0]>>]

InitSave == /\ games = <<[gameId |-> "ABC123", room |-> 1], [gameId |-> "XYZ789", room |-> 2]>> /\ \E r \in PlayedRoom : (rooms = <<r, LobbyRoom>> /\ codes = {[code |-> createSaveCode(r), room |-> 1, at |-> r.state]}) /\ sock = [ThreeClients EXCEPT !["w2"] = "DONE"] /\ timers = <<>> /\ outbox = <<>> /\ uuid = 7 /\ steps = MaxSaveSteps /\ last = NoLast /\ trail = <<>> /\ sanIn = NoRoom /\ sanOut = NoRoom

NextSave == SaveGame \/ LoadGame \/ MulliganKeep \/ Concede \/ PassTurn \/ Undo \/ Redo

SpecSave == InitSave /\ [][NextSave]_vars

\* C21: seat 0 of a live room always holds the player record of the room's
\* creator: no request (join, game action, UNDO, REDO, LOAD_GAME) leaves seat 0
\* empty or with another player id than it had, and an accepted JOIN_GAME
\* seats the joiner at seat 1.
C21_SeatZeroIsCreator == (last.room # 0 /\ last.before # NoRoom) => (/\ rooms[last.room].state.players[1] # Null /\ last.before.state.players[1] # Null /\ rooms[last.room].state.players[1].id = last.before.state.players[1].id /\ ((last.op = "JOIN_GAME" /\ last.ok) => rooms[last.room].state.players[2] # last.before.state.players[2]))

---------------------------------------------------------------------------
(* Solo practice (SpecMatch) *)

EmptyZones(player) == \A z \in ZoneNames : player[z] = <<>>

\* C22: ENABLE_GOLDFISH is accepted only in the lobby phase with seat 1 empty
\* and then seats at seat 1 an opponent whose zones are all empty; in every
\* state of a room in solo mode the opponent at seat 1 has hasKeptHand and
\* readyForNextGame both true.
C22_GoldfishAlwaysReady ==
  /\ (last.op = "GAME_ACTION" /\ last.room # 0 /\ last.action.type = "ENABLE_GOLDFISH" /\ last.ok) =>
       /\ last.before.state.phase = "lobby" /\ last.before.state.players[2] = Null
       /\ rooms[last.room].state.isGoldfishMode /\ rooms[last.room].state.players[2] # Null
       /\ EmptyZones(rooms[last.room].state.players[2])
  /\ \A r \in 1..Len(rooms) : rooms[r].state.isGoldfishMode =>
       /\ rooms[r].state.players[2] # Null
       /\ rooms[r].state.players[2].hasKeptHand /\ rooms[r].state.players[2].readyForNextGame

---------------------------------------------------------------------------
(* SpecField: cards on both battlefields.  The started match of SpecGame after *)
(* Ann has played her Forest and her Delver and Bob his Delver, and the states *)
(* one ATTACH_CARD by Ann leads to from there; the undo history is empty as in *)
(* SpecGame.                                                                   *)

Play(id, x, y) == [type |-> "MOVE_CARD", instanceId |-> id, from |-> "hand", to |-> "battlefield", position |-> [x |-> x, y |-> y], faceDown |-> FALSE]

Fielded == After(After(After(StartedState, 0, Play(Uuid(3), 20, 20)), 0, Play(Uuid(4), 50, 50)), 1, Play(Uuid(6), 70, 30))

FieldStates == Fielded \cup After(Fielded, 0, [type |-> "ATTACH_CARD", instanceId |-> Uuid(3), targetId |-> Uuid(4)]) \cup After(Fielded, 0, [type |-> "ATTACH_CARD", instanceId |-> Uuid(3), targetId |-> Uuid(6)])

InitField == /\ games = <<[gameId |-> "ABC123", room |-> 1]>> /\ \E s \in FieldStates : rooms = <<[NewRoom(s) EXCEPT !.players = TwoSeats]>> /\ sock = ThreeClients /\ timers = <<>> /\ outbox = <<>> /\ uuid = 6 /\ steps = MaxFieldSteps /\ last = NoLast /\ trail = <<>> /\ sanIn = NoRoom /\ sanOut = NoRoom /\ codes = {}

NextField == AttachCard \/ DetachCard \/ MoveCard \/ MoveToOpponentBattlefield \/ TakeFromOpponentBattlefield \/ ReadyForNextGame

SpecField == InitField /\ [][NextField]_vars

\* the ids of the cards on the two battlefields
FieldIds(state) == IdsOf((IF state.players[1] = Null THEN <<>> ELSE state.players[1].battlefield) \o (IF state.players[2] = Null THEN <<>> ELSE state.players[2].battlefield))

\* C23: in every state each card whose attachedTo is set refers to a card on
\* one of the two battlefields (so a host that leaves the battlefield by a
\* move, a take or the next-game setup leaves no card attached to it), and
\* each id in the attachments of a battlefield card is that of a card on a
\* battlefield (so an attached card that leaves is removed from its host).
C23_AttachmentsPointToBattlefield ==
  \A r \in 1..Len(rooms) :
    /\ \A c \in Range(AllCards(rooms[r].state)) : c.attachedTo # NoId => c.attachedTo \in FieldIds(rooms[r].state)
    /\ \A p \in 1..2 : rooms[r].state.players[p] # Null =>
         \A h \in Range(rooms[r].state.players[p].battlefield) : Range(h.attachments) \subseteq FieldIds(rooms[r].state)

---------------------------------------------------------------------------
(* ATTACH_CARD and DETACH_CARD (SpecField) *)

\* the card with the id, wherever in the state it is
CardOf(state, id) == CHOOSE c \in Range(AllCards(state)) : c.instanceId = id

Times_In(ids, id) == Cardinality({i \in 1..Len(ids) : ids[i] = id})

AttachServed == last.op = "GAME_ACTION" /\ last.room # 0 /\ last.action.type = "ATTACH_CARD" /\ last.action.instanceId # last.action.targetId /\ {last.action.instanceId, last.action.targetId} \subseteq FieldIds(last.before.state)

\* DETACH_CARD of a card that is attached to a card on a battlefield
DetachServed == last.op = "GAME_ACTION" /\ last.room # 0 /\ last.action.type = "DETACH_CARD" /\ last.action.instanceId \in FieldIds(last.before.state) /\ CardOf(last.before.state, last.action.instanceId).attachedTo \in FieldIds(last.before.state)

\* the card ATTACH_CARD moved was attached to another card before
HadHost == AttachServed /\ CardOf(last.before.state, last.action.instanceId).attachedTo \notin {NoId, last.action.targetId}

\* C24: ATTACH_CARD(c, t) for distinct cards on the battlefields, of either
\* player and from either seat, leaves c.attachedTo = t, c exactly once in
\* t.attachments, c in the attachments of its previous host no more, and c at
\* t's position; DETACH_CARD(c) of a card so attached clears c.attachedTo and
\* removes c from t.attachments.
C24_AttachDetach ==
  LET a == rooms[last.room].state
      b == last.before.state
      c == last.action.instanceId
  IN /\ AttachServed =>
          /\ CardOf(a, c).attachedTo = last.action.targetId
          /\ Times_In(CardOf(a, last.action.targetId).attachments, c) = 1
          /\ CardOf(a, c).position = CardOf(a, last.action.targetId).position
          /\ {c, last.action.targetId} \subseteq FieldIds(a)
          /\ HadHost => c \notin Range(CardOf(a, CardOf(b, c).attachedTo).attachments)
     /\ DetachServed =>
          /\ CardOf(a, c).attachedTo = NoId
          /\ c \notin Range(CardOf(a, CardOf(b, c).attachedTo).attachments)

\* the same with the previous host still on a battlefield when ATTACH_CARD arrives
AttachDetachLinked ==
  LET a == rooms[last.room].state
      b == last.before.state
      c == last.action.instanceId
  IN /\ AttachServed =>
          /\ CardOf(a, c).attachedTo = last.action.targetId
          /\ Times_In(CardOf(a, last.action.targetId).attachments, c) = 1
          /\ CardOf(a, c).position = CardOf(a, last.action.targetId).position
          /\ {c, last.action.targetId} \subseteq FieldIds(a)
          /\ (HadHost /\ CardOf(b, c).attachedTo \in FieldIds(b)) => c \notin Range(CardOf(a, CardOf(b, c).attachedTo).attachments)
     /\ DetachServed =>
          /\ CardOf(a, c).attachedTo = NoId
          /\ c \notin Range(CardOf(a, CardOf(b, c).attachedTo).attachments)

---------------------------------------------------------------------------
(* Cards entering a zone (SpecGame) *)

ActorAfter == PlayerAt(rooms[last.room].state, SeatOfLast)

\* the zones the claims call hand, graveyard, library and exile
RestZones == {"hand", "graveyard", "deck", "exileActive", "exilePermanent"}

\* the last request was a MOVE_CARD that found its card and put it in a rest zone of the sender
MovedToRest == last.op = "GAME_ACTION" /\ last.room # 0 /\ ActorBefore # Null /\ last.action.type = "MOVE_CARD" /\ last.action.to \in RestZones /\ ~MissesCard /\ FindIndex(ActorAfter[last.action.to], last.action.instanceId) # 0

\* C25: a card that MOVE_CARD has put into a hand, graveyard, library or exile
\* zone, from any zone or from the stack and whatever the faceDown flag of the
\* request, is untapped, face up and has no position.
C25_RestZonesResetCard == MovedToRest => LET c == ActorAfter[last.action.to][FindIndex(ActorAfter[last.action.to], last.action.instanceId)] IN ~c.isTapped /\ ~c.isFaceDown /\ c.position = NoPos

\* the last request was a TAKE_FROM_OPPONENT_BATTLEFIELD that found its card and named a zone of the sender
TookCard == last.op = "GAME_ACTION" /\ last.room # 0 /\ ActorBefore # Null /\ last.action.type = "TAKE_FROM_OPPONENT_BATTLEFIELD" /\ last.ok /\ ~MissesCard /\ last.action.to \in ZoneNames

\* C26: after TAKE_FROM_OPPONENT_BATTLEFIELD has taken a card, the card is no
\* longer on the opponent's battlefield, it is in the requested zone of the
\* taking player, and it is untapped and face up whatever it was before.
C26_TakenCardIsReset == TookCard => LET id == last.action.instanceId zone == ActorAfter[last.action.to] IN /\ FindIndex(PlayerAt(rooms[last.room].state, Other(SeatOfLast)).battlefield, id) = 0 /\ FindIndex(zone, id) # 0 /\ ~zone[FindIndex(zone, id)].isTapped /\ ~zone[FindIndex(zone, id)].isFaceDown

---------------------------------------------------------------------------
(* Reveals (SpecGame) *)

RevealKinds == {"REVEAL_HAND", "REVEAL_CARDS_TO_OPPONENT", "PEEK_OPPONENT_LIBRARY"}

RevealServed == last.op = "GAME_ACTION" /\ last.room # 0 /\ ActorBefore # Null /\ last.action.type \in RevealKinds

\* C27: no reveal request (REVEAL_HAND, REVEAL_CARDS_TO_OPPONENT,
\* PEEK_OPPONENT_LIBRARY), with or without something to reveal, makes the
\* server send a STATE_UPDATE to any connection.
C27_RevealsSendNoStateUpdate == RevealServed => \A i \in 1..Len(outbox) : outbox[i].type # "STATE_UPDATE"

---------------------------------------------------------------------------
(* SpecReveal: one reveal request in the game in progress of SpecMatch, after  *)
(* Ann has put two cards of her hand under her library (three cards then); all *)
(* sockets are open, or the close event of Ann's or of Bob's is pending.       *)

RevealStates == After(InProgress, 0, [type |-> "BOTTOM_CARDS", instanceIds |-> <<Uuid(5), Uuid(6)>>])

InitReveal == /\ games = <<[gameId |-> "ABC123", room |-> 1]>> /\ \E s \in RevealStates : rooms = <<[NewRoom(s) EXCEPT !.players = TwoSeats]>> /\ sock \in {ThreeClients, [ThreeClients EXCEPT !["w1"] = "CLOSED"], [ThreeClients EXCEPT !["w2"] = "CLOSED"]} /\ timers = <<>> /\ outbox = <<>> /\ uuid = 14 /\ steps = MaxRevealSteps /\ last = NoLast /\ trail = <<>> /\ sanIn = NoRoom /\ sanOut = NoRoom /\ codes = {}

NextReveal == PeekOpponentLibrary \/ RevealHand \/ RevealCardsToOpponent

SpecReveal == InitReveal /\ [][NextReveal]_vars

Revealed == {i \in 1..Len(outbox) : outbox[i].type = "CARDS_REVEALED"}

\* the open connection entries of the room of the last request bound to a seat
OpenAtSeat(seat) == {k \in 1..Len(rooms[last.room].players) : rooms[last.room].players[k].playerIndex = seat /\ IsOpen(rooms[last.room].players[k].ws)}

SocketsAtSeat(seat) == {rooms[last.room].players[k].ws : k \in OpenAtSeat(seat)}

\* the identities of the cards, in order, as a CARDS_REVEALED message lists them
Identities(cards) == [i \in 1..Len(cards) |-> [instanceId |-> cards[i].instanceId, name |-> cards[i].name, imageUri |-> cards[i].imageUri, backImageUri |-> cards[i].backImageUri]]

\* the routing of the reveals: a CARDS_REVEALED message comes from a reveal
\* request only; the one of REVEAL_HAND or REVEAL_CARDS_TO_OPPONENT goes to the
\* open connections bound to the seat opposite the revealer, once each, and
\* never to the revealer; the one of PEEK_OPPONENT_LIBRARY goes to the
\* requester alone, never to the owner of the library
RevealRouting ==
  /\ Revealed # {} => RevealServed
  /\ (RevealServed /\ last.action.type # "PEEK_OPPONENT_LIBRARY") =>
       /\ \A i \in Revealed : outbox[i].to \in SocketsAtSeat(Other(SeatOfLast)) /\ outbox[i].to # last.ws
       /\ Cardinality(Revealed) \in {0, Cardinality(OpenAtSeat(Other(SeatOfLast)))}
       /\ last.action.type = "REVEAL_HAND" => (Cardinality(Revealed) = Cardinality(OpenAtSeat(Other(SeatOfLast))) /\ \A i \in Revealed : outbox[i].body.cards = Identities(ActorBefore.hand))
  /\ (RevealServed /\ last.action.type = "PEEK_OPPONENT_LIBRARY") =>
       /\ \A i \in Revealed : outbox[i].to = last.ws /\ outbox[i].to \notin SocketsAtSeat(Other(SeatOfLast))
       /\ Cardinality(Revealed) = (IF OpponentBefore # Null /\ Len(OpponentBefore.deck) > 0 THEN 1 ELSE 0)

\* the top n cards of a library, none when n is not positive
Top(deck, n) == SubSeq(deck, 1, IF n > 0 THEN n ELSE 0)

\* what a peek lists: the top min(count, library size) cards, in library order
PeekListsTop == (RevealServed /\ last.action.type = "PEEK_OPPONENT_LIBRARY") => \A i \in Revealed : outbox[i].body.cards = Identities(Top(OpponentBefore.deck, Min(last.action.count, Len(OpponentBefore.deck))))

\* the same for the counts that are natural numbers
PeekListsTopOfNat == (RevealServed /\ last.action.type = "PEEK_OPPONENT_LIBRARY" /\ last.action.count >= 0) => \A i \in Revealed : outbox[i].body.cards = Identities(Top(OpponentBefore.deck, Min(last.action.count, Len(OpponentBefore.deck))))

\* C28: a CARDS_REVEALED message of REVEAL_HAND or REVEAL_CARDS_TO_OPPONENT is
\* delivered only to connections bound to the seat opposite the revealer and
\* never to the revealer; the one of PEEK_OPPONENT_LIBRARY is delivered only to
\* the requesting player's connection, never to the library's owner, and lists
\* exactly the top min(count, library size) cards in library order.
C28_RevealRecipients == RevealRouting /\ PeekListsTop

---------------------------------------------------------------------------
(* Save and load (SpecSave)                                                    *)

LoadServed == last.op = "GAME_ACTION" /\ last.action.type = "LOAD_GAME" /\ last.room # 0

\* the saved part of a state equals that of the state s
Resumes(state, s) == /\ state.players = s.players /\ state.stack = s.stack /\ state.phase = s.phase /\ state.currentGame = s.currentGame /\ state.gameResults = s.gameResults /\ state.turn = s.turn

\* the codes saved in the room of the last request that the request carried
CarriedCodes == {c \in codes : c.code = last.action.code /\ c.room = last.room}

\* C29: loading the code that SAVE_GAME produced in state s, in the same room
\* after any intervening actions, succeeds and makes players, stack, phase, game
\* counter, game results and turn those of s; and no LOAD_GAME, whatever its
\* code, changes the password hash or the room code of the room, no save code
\* carrying either.
C29_LoadResumesSavedState ==
  /\ LoadServed => \A c \in CarriedCodes : last.ok /\ Resumes(rooms[last.room].state, c.at)
  /\ LoadServed => (rooms[last.room].state.passwordHash = last.before.state.passwordHash /\ rooms[last.room].state.id = last.before.state.id)
  /\ \A c \in codes : c.code.has \cap {"passwordHash", "id"} = {}
  /\ \A i \in 1..Len(outbox) : outbox[i].type = "GAME_SAVED" => outbox[i].body.saveCode.has \cap {"passwordHash", "id"} = {}

\* a code of the room is loaded after the state had moved away from the saved one
C29_Witness == LoadServed /\ last.ok /\ \E c \in CarriedCodes : ~Resumes(last.before.state, c.at) /\ c.at.stack # <<>> /\ Resumes(rooms[last.room].state, c.at)

\* a code saved in room ABC123 is loaded in room XYZ789, whose hash stays
LoadFromOtherRoom == LoadServed /\ last.ok /\ last.room = 2 /\ (\E c \in codes : c.code = last.action.code /\ c.room = 1) /\ rooms[2].state.passwordHash = hashPassword("pw2")


\* the successful loads of the trail
Loads == {j \in 1..Len(trail) : trail[j].type = "LOAD_GAME" /\ trail[j].ok}

\* the requests of the trail made in the room of request j after it
Later(j) == {k \in (j + 1)..Len(trail) : trail[k].room = trail[j].room}

\* the first request made in the room of request j after it, if any
NextInRoom(j) == {k \in Later(j) : \A m \in Later(j) : k <= m}

\* C30: right after a successful LOAD_GAME the history of the room is empty and
\* its cursor is -1; an UNDO or a REDO that comes next in the room reports
\* failure and leaves the loaded state; and any later UNDO that succeeds gives
\* a state the room was in after the load, never one from before it.
C30_LoadStartsNewTimeline ==
  /\ (LoadServed /\ last.ok) => (rooms[last.room].stateHistory = <<>> /\ rooms[last.room].historyIndex = -1)
  /\ \A j \in Loads : \A k \in NextInRoom(j) : trail[k].type \in Meta => (~trail[k].ok /\ trail[k].after = trail[j].after)
  /\ \A j \in Loads : \A k \in Later(j) : (trail[k].type = "UNDO" /\ trail[k].ok) => \E m \in Later(j) : m < k /\ trail[k].after = trail[m].before

\* an UNDO succeeds, the game is loaded, and the next UNDO fails
C30_Witness == Len(trail) >= 3 /\ Back(3).type = "UNDO" /\ Back(3).ok /\ Back(2).type = "LOAD_GAME" /\ Back(2).ok /\ Back(1).type = "UNDO" /\ ~Back(1).ok /\ Back(3).room = Back(2).room /\ Back(2).room = Back(1).room /\ Back(1).after = Back(2).after

\* after a load and two turns passed, UNDO gives back the loaded state
UndoBackToLoaded == Len(trail) >= 4 /\ Back(4).type = "LOAD_GAME" /\ Back(4).ok /\ Back(1).type = "UNDO" /\ Back(1).ok /\ Back(1).room = Back(4).room /\ Back(3).room = Back(4).room /\ Back(2).room = Back(4).room /\ Back(1).after = Back(4).after


\* the code of a load names no save: wrong tag, not a record, or no players or no phase
BadCode(code) == code.tag # "PM1_" \/ ~code.json \/ "players" \notin code.has \/ "phase" \notin code.has

\* a load with such a code from a connection whose seat has a player: the
\* request passes the entrance of processAction and reaches the LOAD_GAME branch
BadLoadServed == LoadServed /\ BadCode(last.action.code) /\ ActorBefore # Null

\* C31: a LOAD_GAME, from a connection whose seat has a player, whose code
\* does not start with the PM1_ tag, does not
\* decode to a record, or decodes to a record without players or without phase
\* is answered with ERROR LOAD_FAILED, sends no STATE_UPDATE, and leaves the
\* game state and the undo history, contents and cursor, as they were.
C31_BadCodeIsRefused == BadLoadServed => (/\ outbox = Reply(last.ws, ErrorMsg("LOAD_FAILED")) /\ ~last.ok /\ rooms[last.room].state = last.before.state /\ rooms[last.room].stateHistory = last.before.stateHistory /\ rooms[last.room].historyIndex = last.before.historyIndex)

\* a code without a tag is refused while the room has two snapshots to lose
C31_Witness == BadLoadServed /\ last.action.code.tag = "PM2_" /\ Len(last.before.stateHistory) = 2 /\ last.before.historyIndex = 1 /\ Len(outbox) = 1

\* the same with a record that has no players
RefusedWithoutPlayers == BadLoadServed /\ last.action.code.tag = "PM1_" /\ last.action.code.json /\ "players" \notin last.action.code.has /\ Len(outbox) = 1

---------------------------------------------------------------------------
(* SpecSeat: a lobby room created by Ann, who holds a save code of it, with   *)
(* or without two turns passed; players join and reconnect, the game is       *)
(* saved, loaded, undone and redone.                                          *)

LobbyAnn == [NewRoom(SetPlayer(createGameState("ABC123", hashPassword("pw1")), 0, createPlayer(Uuid(1), "Ann"))) EXCEPT !.players = OneSeat]

LobbyPassed == {[saveStateSnapshot([saveStateSnapshot(LobbyAnn) EXCEPT !.state = s1]) EXCEPT !.state = s2] : s1 \in After({LobbyAnn.state}, 0, [type |-> "PASS_TURN"]), s2 \in UNION {After({t}, 0, [type |-> "PASS_TURN"]) : t \in After({LobbyAnn.state}, 0, [type |-> "PASS_TURN"])}}

InitSeat == /\ games = <<[gameId |-> "ABC123", room |-> 1]>> /\ \E r \in {LobbyAnn} \cup LobbyPassed : rooms = <<r>> /\ codes = {[code |-> createSaveCode(LobbyAnn), room |-> 1, at |-> LobbyAnn.state]} /\ sock = ThreeClients /\ timers = <<>> /\ outbox = <<>> /\ uuid = 1 /\ steps = MaxSeatSteps /\ last = NoLast /\ trail = <<>> /\ sanIn = NoRoom /\ sanOut = NoRoom

NextSeat == JoinGame \/ Reconnect \/ SaveGame \/ LoadGame \/ PassTurn \/ Undo \/ Redo

SpecSeat == InitSeat /\ [][NextSeat]_vars

\* C36: for each entry of the connection table of a live room, the game state
\* of the room has a player with the entry's playerId at the entry's seat.
C36_ConnectionsAreSeated == \A g \in 1..Len(games) : \A k \in 1..Len(rooms[games[g].room].players) : (PlayerAt(rooms[games[g].room].state, rooms[games[g].room].players[k].playerIndex) # Null /\ PlayerAt(rooms[games[g].room].state, rooms[games[g].room].players[k].playerIndex).id = rooms[games[g].room].players[k].playerId)

---------------------------------------------------------------------------
(* SpecLife: the two-seat room of SpecSave after Ann has lost 3 life; life    *)
(* changes, undo and redo, the end of a game and the next one, a load.        *)

LifeRooms == {[saveStateSnapshot([r EXCEPT !.players = TwoSeats]) EXCEPT !.state = s] : r \in PlayedRoom, s \in UNION {After({q.state}, 0, [type |-> "UPDATE_LIFE", delta |-> -3]) : q \in PlayedRoom}}

InitLife == /\ games = <<[gameId |-> "ABC123", room |-> 1]>> /\ \E r \in LifeRooms : (rooms = <<r>> /\ codes = {[code |-> createSaveCode([r EXCEPT !.state = r.stateHistory[3]]), room |-> 1, at |-> r.stateHistory[3]]}) /\ sock = ThreeClients /\ timers = <<>> /\ outbox = <<>> /\ uuid = 6 /\ steps = MaxLifeSteps /\ last = NoLast /\ trail = <<>> /\ sanIn = NoRoom /\ sanOut = NoRoom

NextLife == UpdateLife \/ Undo \/ Redo \/ Concede \/ ReadyForNextGame \/ LoadGame

SpecLife == InitLife /\ [][NextLife]_vars

LifeServed == last.op = "GAME_ACTION" /\ last.action.type = "UPDATE_LIFE" /\ last.room # 0

\* a ledger adds up: it starts at 20 and each later total is the one before plus the delta
AddsUp(life) == /\ Len(life) >= 1 /\ life[1].total = StartLife /\ \A i \in 2..Len(life) : life[i].total = life[i - 1].total + life[i].delta

\* C32: each UPDATE_LIFE appends exactly one entry to the ledger of the acting
\* player, whose total is the last total before plus the delta, and leaves
\* every earlier entry and the ledger of the other player as they were; in
\* every reachable state every ledger adds up from a first total of 20.
C32_LifeIsALedger ==
  /\ LifeServed => (/\ last.ok /\ Len(ActorAfter.life) = Len(ActorBefore.life) + 1 /\ SubSeq(ActorAfter.life, 1, Len(ActorBefore.life)) = ActorBefore.life /\ ActorAfter.life[Len(ActorAfter.life)] = [delta |-> last.action.delta, total |-> ActorBefore.life[Len(ActorBefore.life)].total + last.action.delta] /\ PlayerAt(rooms[last.room].state, Other(SeatOfLast)).life = OpponentBefore.life)
  /\ \A r \in 1..Len(rooms) : \A p \in 1..2 : rooms[r].state.players[p] # Null => AddsUp(rooms[r].state.players[p].life)

\* Ann gains 2 after the loss of 3 her ledger already holds
C32_Witness == LifeServed /\ Len(ActorAfter.life) = 3 /\ ActorAfter.life[3].total = 19 /\ ActorAfter.life[2].total = 17

\* the next game starts each ledger again at 20
LedgerRestarted == last.op = "GAME_ACTION" /\ last.action.type = "READY_FOR_NEXT_GAME" /\ Len(last.before.state.players[1].life) = 2 /\ Len(rooms[last.room].state.players[1].life) = 1

---------------------------------------------------------------------------
(* SpecLayer: the battlefields of SpecField with a token of Ann's, without    *)
(* orders or with the orders 1, 2, 3 on Ann's side; cards are brought to the  *)
(* front and sent to the back from either seat, and tokens are created.       *)

Tokened == {[s EXCEPT !.players[1].battlefield = Append(s.players[1].battlefield, [(CHOOSE t \in TokenPayloads : t.zIndex = <<>>) EXCEPT !.instanceId = Uuid(7)])] : s \in Fielded}

Layered == After(After(Tokened, 0, [type |-> "BRING_TO_FRONT", instanceId |-> Uuid(4)]), 1, [type |-> "BRING_TO_FRONT", instanceId |-> Uuid(7)])

InitLayer == /\ games = <<[gameId |-> "ABC123", room |-> 1]>> /\ \E s \in Tokened \cup Layered : rooms = <<[NewRoom(s) EXCEPT !.players = TwoSeats]>> /\ sock = ThreeClients /\ timers = <<>> /\ outbox = <<>> /\ uuid = 7 /\ steps = MaxLayerSteps /\ last = NoLast /\ trail = <<>> /\ sanIn = NoRoom /\ sanOut = NoRoom /\ codes = {}

NextLayer == BringToFront \/ SendToBack \/ CreateToken

SpecLayer == InitLayer /\ [][NextLayer]_vars

\* the card the last request names, where it was before the request
HitOfLast == findCardInGameState(last.before.state, last.action.instanceId)

LayerServed(type) == last.op = "GAME_ACTION" /\ last.action.type = type /\ last.room # 0 /\ HitOfLast.zone = "battlefield"

\* the battlefield of the owner of that card, before and after the request
BfBefore == last.before.state.players[HitOfLast.playerIndex + 1].battlefield

BfAfter == rooms[last.room].state.players[HitOfLast.playerIndex + 1].battlefield

OthersOnBf == (1..Len(BfBefore)) \ {HitOfLast.index}

\* the other player is as before
OtherSideSame == rooms[last.room].state.players[2 - HitOfLast.playerIndex] = last.before.state.players[2 - HitOfLast.playerIndex]

\* the highest order of a battlefield, a missing order counting as 1
TopOrder(battlefield) == CHOOSE m \in {ZOf(battlefield[i]) : i \in 1..Len(battlefield)} : \A i \in 1..Len(battlefield) : ZOf(battlefield[i]) <= m

SentToBack == /\ Len(BfAfter) = Len(BfBefore) /\ BfAfter[HitOfLast.index] = [BfBefore[HitOfLast.index] EXCEPT !.zIndex = <<1>>] /\ \A i \in OthersOnBf : BfAfter[i] = [BfBefore[i] EXCEPT !.zIndex = <<ZOf(BfBefore[i]) + 1>>]

BroughtToFront == /\ Len(BfAfter) = Len(BfBefore) /\ BfAfter[HitOfLast.index] = [BfBefore[HitOfLast.index] EXCEPT !.zIndex = <<TopOrder(BfBefore) + 1>>] /\ \A i \in OthersOnBf : BfAfter[i] = BfBefore[i]

\* C33: SEND_TO_BACK on a battlefield card sets its order to 1 and raises by
\* one the order (a missing one counting as 1) of every other card of the same
\* battlefield, so the card ends strictly lowest; BRING_TO_FRONT sets the order
\* of the card to one above the highest of that battlefield, so it ends strictly
\* highest; the battlefield of the other player is unchanged by either.
C33_Layering ==
  /\ LayerServed("SEND_TO_BACK") => (SentToBack /\ OtherSideSame /\ \A i \in OthersOnBf : ZOf(BfAfter[i]) > ZOf(BfAfter[HitOfLast.index]))
  /\ LayerServed("BRING_TO_FRONT") => (BroughtToFront /\ OtherSideSame /\ \A i \in OthersOnBf : ZOf(BfAfter[i]) < ZOf(BfAfter[HitOfLast.index]))

\* the orders of a battlefield are missing or at least 1
NaturalOrders(battlefield) == \A i \in 1..Len(battlefield) : ZOf(battlefield[i]) >= 1

\* the same on battlefields whose orders are missing or at least 1
LayeringOfNaturalOrders == (\E t \in {"SEND_TO_BACK", "BRING_TO_FRONT"} : LayerServed(t) /\ NaturalOrders(BfBefore)) => C33_Layering

\* the orders 1, 2, 3 with the card of order 3 sent back become 2, 3, 1
OneTwoThree == LayerServed("SEND_TO_BACK") /\ Len(BfBefore) = 3 /\ <<ZOf(BfBefore[1]), ZOf(BfBefore[2]), ZOf(BfBefore[3])>> = <<1, 2, 3>> /\ HitOfLast.index = 3 /\ <<ZOf(BfAfter[1]), ZOf(BfAfter[2]), ZOf(BfAfter[3])>> = <<2, 3, 1>>

---------------------------------------------------------------------------
(* Snapshots per action kind (SpecGame)                                       *)

MetaKinds == {"UNDO", "REDO", "SAVE_GAME", "LOAD_GAME"}

\* a game action from a connection whose seat has a player: the request passes
\* the entrance of processAction
Acted == last.op = "GAME_ACTION" /\ last.room # 0 /\ ActorBefore # Null

\* the history before the request, cut after its cursor
KeptBefore == IF last.before.historyIndex < Len(last.before.stateHistory) - 1 THEN SubSeq(last.before.stateHistory, 1, last.before.historyIndex + 1) ELSE last.before.stateHistory

\* one snapshot was appended to it, the state before the request, the oldest
\* one leaving when that makes more than MAX_HISTORY, and the cursor is on it
OneSnapshotTaken == /\ rooms[last.room].stateHistory = (IF Len(KeptBefore) + 1 > MAX_HISTORY THEN Tail(Append(KeptBefore, last.before.state)) ELSE Append(KeptBefore, last.before.state)) /\ rooms[last.room].historyIndex = Len(rooms[last.room].stateHistory) - 1

\* C34: processAction appends exactly one history snapshot, the game state
\* before the action is interpreted, for every action kind other than UNDO,
\* REDO, SAVE_GAME and LOAD_GAME, unknown kinds and no-ops included, and none
\* for those four; SAVE_GAME changes nothing in the room and sends no
\* STATE_UPDATE.
C34_SnapshotPerAction ==
  /\ (Acted /\ last.action.type \notin MetaKinds) => OneSnapshotTaken
  /\ (Acted /\ last.action.type \in {"UNDO", "REDO"}) => rooms[last.room].stateHistory = last.before.stateHistory
  /\ (Acted /\ last.action.type = "LOAD_GAME") => rooms[last.room].stateHistory \in {last.before.stateHistory, <<>>}
  /\ (Acted /\ last.action.type = "SAVE_GAME") => (rooms[last.room] = last.before /\ Len(outbox) = 1 /\ outbox[1].type = "GAME_SAVED" /\ outbox[1].to = last.ws)

\* an unknown kind changes nothing and still leaves its snapshot
C34_Witness == Acted /\ last.action.type = "FROBNICATE" /\ rooms[last.room].state = last.before.state /\ rooms[last.room].stateHistory = <<last.before.state>> /\ Len(last.before.state.stack) = 1

\* a move is made after an UNDO: the forward snapshot goes, the new one comes
SnapshotAfterUndo == Acted /\ last.action.type \notin MetaKinds /\ last.before.historyIndex = 0 /\ Len(last.before.stateHistory) = 2 /\ OneSnapshotTaken /\ rooms[last.room].stateHistory[2] # last.before.stateHistory[2]


---------------------------------------------------------------------------
(* The history at its maximum depth: a started room in which one seat has
   passed the turn MAX_HISTORY - 2 times, so that two more actions fill the
   history and the next one evicts *)

\* the log entry a PASS_TURN of seat 0 appends
PassEntry(s) == addLogEntry([s EXCEPT !.actionLog = <<>>], 0, "PASS_TURN").actionLog[1]

\* the state after seat 0 passed the turn k times, in closed form
PassedState(s, k) == IF k = 0 THEN s ELSE [s EXCEPT !.turn = [number |-> s.turn.number + k, activePlayer |-> IF s.isGoldfishMode \/ k % 2 = 0 THEN (IF s.isGoldfishMode THEN 0 ELSE s.turn.activePlayer) ELSE Other(s.turn.activePlayer), phase |-> "Main"], !.actionLog = KeepLast(s.actionLog \o [i \in 1..k |-> PassEntry(s)])]

\* the closed form is what PASS_TURN computes, one pass after the other
PassedStateIsIterated == \A s \in StartedState : \A k \in 0..MAX_HISTORY : After({PassedState(s, k)}, 0, [type |-> "PASS_TURN"]) = {PassedState(s, k + 1)}

\* the room after seat 0 passed the turn k times: the snapshots are the states
\* before each pass
PassedTimes(room, k) == [room EXCEPT !.state = PassedState(room.state, k), !.stateHistory = [i \in 1..k |-> PassedState(room.state, i - 1)], !.historyIndex = k - 1]

DeepRooms == {PassedTimes([NewRoom(s) EXCEPT !.players = OneSeat], MAX_HISTORY - 2) : s \in StartedState}

InitDeep == /\ games = <<[gameId |-> "ABC123", room |-> 1]>> /\ \E r \in DeepRooms : rooms = <<r>> /\ sock = [ThreeClients EXCEPT !["w2"] = "CLOSED"] /\ timers = <<>> /\ outbox = <<>> /\ uuid = 6 /\ steps = MaxDeepSteps /\ last = NoLast /\ trail = <<>> /\ sanIn = NoRoom /\ sanOut = NoRoom /\ codes = {}

NextDeep == PassTurn \/ UnknownAction \/ Undo \/ Redo

SpecDeep == InitDeep /\ [][NextDeep]_vars

\* the cursor is inside the history, or -1, and the history holds at most MAX_HISTORY
HistoryInBounds == \A i \in 1..Len(rooms) : /\ rooms[i].historyIndex >= -1 /\ rooms[i].historyIndex < Len(rooms[i].stateHistory) /\ Len(rooms[i].stateHistory) <= MAX_HISTORY

\* a served UNDO had a snapshot below the cursor, a served REDO one above it
UndoRedoGuards == (Acted /\ last.ok) => /\ (last.action.type = "UNDO" => last.before.historyIndex > 0) /\ (last.action.type = "REDO" => last.before.historyIndex < Len(last.before.stateHistory) - 1)

\* the history the snapshot of the last action was pushed onto was full
PushedOntoFull == Acted /\ last.action.type \notin MetaKinds /\ Len(KeptBefore) = MAX_HISTORY

\* the oldest snapshot left, the new one is last and the cursor is on it
OldestEvicted == /\ rooms[last.room].stateHistory = Append(Tail(KeptBefore), last.before.state) /\ rooms[last.room].historyIndex = MAX_HISTORY - 1

\* C35: in every room -1 <= historyIndex < Len(stateHistory) <= MAX_HISTORY; an
\* UNDO succeeds only from historyIndex > 0 and a REDO only from
\* historyIndex < Len(stateHistory) - 1; a snapshot pushed onto a history of
\* MAX_HISTORY evicts the oldest one and leaves the cursor on the new one
C35_HistoryBounds == HistoryInBounds /\ UndoRedoGuards /\ (PushedOntoFull => OldestEvicted)

\* a snapshot was pushed onto a full history
C35_Witness == PushedOntoFull /\ rooms[last.room].stateHistory[MAX_HISTORY] = last.before.state /\ rooms[last.room].stateHistory[1] = last.before.stateHistory[2]

\* a REDO succeeded in a history of MAX_HISTORY snapshots
RedoInFullHistory == Acted /\ last.ok /\ last.action.type = "REDO" /\ Len(last.before.stateHistory) = MAX_HISTORY


---------------------------------------------------------------------------
(* Sockets and connection entries *)

\* the connection entries of registered rooms that hold socket w
Refs(w) == {<<games[i].room, k>> : i \in 1..Len(games), k \in 1..3} \cap {e \in (1..Len(rooms)) \X (1..3) : e[2] <= Len(rooms[e[1]].players) /\ rooms[e[1]].players[e[2]].ws = w}

\* C37: a socket is held by at most one connection entry of the registered
\* rooms, and by none once its close or error event has been handled
C37_SocketInOnePlace == \A w \in Sockets : Cardinality(Refs(w)) <= 1 /\ (sock[w] = "DONE" => Refs(w) = {})

\* a room whose only connection entry holds a socket whose close was handled
RoomHeldByDeadSocket == \E i \in 1..Len(games) : /\ Len(rooms[games[i].room].players) > 0 /\ \A k \in 1..Len(rooms[games[i].room].players) : sock[rooms[games[i].room].players[k].ws] = "DONE"


---------------------------------------------------------------------------
(* A reconnect on a new socket, then the close of the old one *)

\* the socket the entry of the player who just reconnected held before, "" if none
PreviousSocket == IF last.op = "RECONNECT" /\ last.ok /\ ConnIndex(last.before.players, last.action.playerId) # 0 THEN last.before.players[ConnIndex(last.before.players, last.action.playerId)].ws ELSE ""

\* this step handles the close of the socket the last reconnect replaced
OldSocketCloseHandled == /\ PreviousSocket \notin {"", last.ws} /\ last'.op = "disconnect" /\ last'.ws = PreviousSocket

\* the room, the player and the seat of the last reconnect
BackRoom == last.room

BackSeat == SeatOf(last.before.state, last.action.playerId)

\* the entry of the player who reconnected still holds the new socket
NewEntryKept == /\ ConnIndex(rooms'[BackRoom].players, last.action.playerId) # 0 /\ rooms'[BackRoom].players[ConnIndex(rooms'[BackRoom].players, last.action.playerId)].ws = last.ws

\* nobody is told that the seat of the player who reconnected was left
NoLeftForSeat == \A k \in 1..Len(outbox') : outbox'[k].type = "PLAYER_LEFT" => ~(outbox'[k].to \in {c.ws : c \in Range(rooms'[BackRoom].players)} /\ outbox'[k].body.playerIndex = BackSeat)

\* no reap timer is started for the room of the player who reconnected
NoTimerForRoom == Len(SelectSeq(timers', LAMBDA t : t.room = BackRoom)) <= Len(SelectSeq(timers, LAMBDA t : t.room = BackRoom))

\* C38: when the close of a player's previous socket is handled after that player
\* reconnected on a new socket, the new entry is kept, no PLAYER_LEFT is sent for
\* that seat, no reap timer is started for the room and its game state and
\* history are unchanged
C38_LateCloseIsHarmless == [][OldSocketCloseHandled => (/\ NewEntryKept /\ NoLeftForSeat /\ NoTimerForRoom /\ rooms'[BackRoom].state = rooms[BackRoom].state /\ rooms'[BackRoom].stateHistory = rooms[BackRoom].stateHistory /\ rooms'[BackRoom].historyIndex = rooms[BackRoom].historyIndex)]_vars

\* the close of w1 was handled after Ann's entry had moved to w2, and found no entry
C38_Witness == /\ last.op = "disconnect" /\ last.ws = "w1" /\ ~last.ok /\ sock["w1"] = "DONE" /\ rooms[1].players = <<[playerId |-> Uuid(1), ws |-> "w2", playerIndex |-> 0]>>

\* the close of w1 was handled after Ann's entry had moved to w2, and took the
\* entry w1 held in the other room it had created
LateCloseEmptiesOtherRoom == /\ last.op = "disconnect" /\ last.ws = "w1" /\ last.ok /\ last.room = 2 /\ Len(rooms[2].players) = 0 /\ rooms[1].players = <<[playerId |-> Uuid(1), ws |-> "w2", playerIndex |-> 0]>>


---------------------------------------------------------------------------
(* The cards of a room: both players' zones and the shared stack *)

\* the zone names of the Zone type
ZoneType == ZoneNames \cup {"stack"}

\* every zone the last request names is of the Zone type
ZoneTyped == \A f \in {"from", "to"} \cap DOMAIN last.action : last.action[f] \in ZoneType

RealCards(cards) == SelectSeq(cards, LAMBDA c : c.isToken = "absent")

CardsBefore == IF last.action.type = "READY_FOR_NEXT_GAME" THEN RealCards(AllCards(last.before.state)) ELSE AllCards(last.before.state)

CardsAfter == IF last.action.type = "READY_FOR_NEXT_GAME" THEN RealCards(AllCards(rooms[last.room].state)) ELSE AllCards(rooms[last.room].state)

\* the last request is one that has to keep the cards of the room
KeepsCards == Acted /\ last.action.type \notin {"CREATE_TOKEN", "DESTROY_TOKEN", "UNDO", "REDO", "LOAD_GAME"} /\ ZoneTyped

\* C39: every action but CREATE_TOKEN, DESTROY_TOKEN, UNDO, REDO and LOAD_GAME
\* leaves the set of card instance ids of the room as it was, with no card twice,
\* whatever zones of the Zone type it names (next-game setup: but for the tokens)
C39_CardsConserved == KeepsCards => (IdsOf(CardsAfter) = IdsOf(CardsBefore) /\ Len(CardsAfter) = Len(CardsBefore))

\* the same, but for a card taken from the opponent's battlefield to the stack
CardsConservedButTakenToStack == (KeepsCards /\ ~(last.action.type = "TAKE_FROM_OPPONENT_BATTLEFIELD" /\ last.action.to = "stack")) => (IdsOf(CardsAfter) = IdsOf(CardsBefore) /\ Len(CardsAfter) = Len(CardsBefore))

\* a card moved from a player's zone to the stack, or back, is still there
MovedOverStack == KeepsCards /\ last.action.type = "MOVE_CARD" /\ "stack" \in {last.action.from, last.action.to} /\ rooms[last.room].state # last.before.state /\ IdsOf(CardsAfter) = IdsOf(CardsBefore)


---------------------------------------------------------------------------
(* A finished match *)

\* the last request was a non-meta action or START_GAME served in a finished room
ServedWhenFinished == /\ RoomRequest /\ last.action.type \notin MetaKinds /\ last.before.state.phase = "finished"

\* C40: no non-meta action served in a finished room changes its phase or its
\* list of game results, and no room holds more than 3 game results
C40_FinishedIsFinal == /\ ServedWhenFinished => (/\ rooms[last.room].state.phase = "finished" /\ rooms[last.room].state.gameResults = last.before.state.gameResults) /\ \A i \in 1..Len(rooms) : Len(rooms[i].state.gameResults) <= 3

\* a finished match got one more game result
ResultAfterFinish == ServedWhenFinished /\ Len(rooms[last.room].state.gameResults) = Len(last.before.state.gameResults) + 1

\* a finished match went back to playing
FinishedBackToPlaying == ServedWhenFinished /\ last.action.type = "MULLIGAN_KEEP" /\ rooms[last.room].state.phase = "playing"

====
